---- MODULE Spec2Model ----
(***************************************************************************)
(* A model of github.com/wirepair/validator: the struct-tag compiler       *)
(* (setDirectives, parseValidate, parseRegex), the type descriptor cache   *)
(* (getFields), the assignment engine (assign, verifiedAssign) and the     *)
(* custom validator registry (Add).                                        *)
(*                                                                         *)
(* Go strings are sequences of one-character strings, so that Split,       *)
(* HasPrefix, Index and the numeric parsers are computed, not assumed.     *)
(***************************************************************************)
EXTENDS Integers, Sequences, FiniteSets, TLC

(***************************************************************************)
(* Bounds of the exploration.                                              *)
(***************************************************************************)
\* calls one goroutine makes in a behaviour
MaxCalls == 3

(***************************************************************************)
(* Go string primitives (package strings, strconv).                        *)
(***************************************************************************)
Digits == <<"0", "1", "2", "3", "4", "5", "6", "7", "8", "9">>

IsDigit(c) == \E i \in 1..10 : Digits[i] = c

DigitVal(c) == (CHOOSE i \in 1..10 : Digits[i] = c) - 1

Lower == <<"a", "b", "c", "d", "e", "f", "g", "h", "i", "j", "k", "l", "m",
           "n", "o", "p", "q", "r", "s", "t", "u", "v", "w", "x", "y", "z">>

Upper == <<"A", "B", "C", "D", "E", "F", "G", "H", "I", "J", "K", "L", "M",
           "N", "O", "P", "Q", "R", "S", "T", "U", "V", "W", "X", "Y", "Z">>

Punct == <<" ", "\"", "$", "'", "(", ")", "*", "+", ",", "-", ".", ":", "<", ">",
           "[", "\\", "]", "^", "_", "|">>

PunctOrd == <<32, 34, 36, 39, 40, 41, 42, 43, 44, 45, 46, 58, 60, 62,
              91, 92, 93, 94, 95, 124>>

\* the byte value of a character, for the characters the model uses
Ord(c) ==
    IF \E i \in 1..10 : Digits[i] = c THEN 48 + DigitVal(c)
    ELSE IF \E i \in 1..26 : Upper[i] = c THEN 64 + (CHOOSE i \in 1..26 : Upper[i] = c)
    ELSE IF \E i \in 1..26 : Lower[i] = c THEN 96 + (CHOOSE i \in 1..26 : Lower[i] = c)
    ELSE IF \E i \in 1..Len(Punct) : Punct[i] = c
         THEN PunctOrd[CHOOSE i \in 1..Len(Punct) : Punct[i] = c]
    ELSE 0

\* s[i:j] with Go's 0-based, half-open indices
Slice(s, i, j) == SubSeq(s, i + 1, j)

\* strings.HasPrefix
HasPrefix(s, p) == Len(s) >= Len(p) /\ SubSeq(s, 1, Len(p)) = p

\* strings.Index, 0-based, -1 when sep does not occur
Index(s, sep) ==
    LET hits == {i \in 0..(Len(s) - Len(sep)) : SubSeq(s, i + 1, i + Len(sep)) = sep}
    IN  IF hits = {} THEN -1 ELSE CHOOSE i \in hits : \A k \in hits : i <= k

\* strings.Contains
Contains(s, sub) == Index(s, sub) >= 0

RECURSIVE Split(_, _)
\* strings.Split for a one-character separator: never returns an empty list
Split(s, sep) ==
    LET i == Index(s, sep)
    IN  IF i < 0 THEN <<s>>
        ELSE <<Slice(s, 0, i)>> \o Split(Slice(s, i + 1, Len(s)), sep)

RECURSIVE digitsValue(_)
digitsValue(s) ==
    IF s = <<>> THEN 0
    ELSE 10 * digitsValue(SubSeq(s, 1, Len(s) - 1)) + DigitVal(s[Len(s)])

\* strconv.ParseUint(s, 10, 64): digits only, no sign, not empty
ParseUint(s) ==
    IF s # <<>> /\ \A i \in 1..Len(s) : IsDigit(s[i])
    THEN [ok |-> TRUE, n |-> digitsValue(s)]
    ELSE [ok |-> FALSE, n |-> 0]

\* strconv.ParseInt(s, 10, 64): an optional sign, then ParseUint
ParseInt(s) ==
    IF s = <<>> THEN [ok |-> FALSE, n |-> 0]
    ELSE IF s[1] = "-"
         THEN LET u == ParseUint(Tail(s)) IN [ok |-> u.ok, n |-> 0 - u.n]
    ELSE IF s[1] = "+" THEN ParseUint(Tail(s))
    ELSE ParseUint(s)

\* strconv.Atoi
Atoi(s) == ParseInt(s)

\* strconv.ParseBool
ParseBool(s) ==
    IF s \in {<<"1">>, <<"t">>, <<"T">>, <<"t", "r", "u", "e">>,
              <<"T", "R", "U", "E">>, <<"T", "r", "u", "e">>}
    THEN [ok |-> TRUE, n |-> TRUE]
    ELSE IF s \in {<<"0">>, <<"f">>, <<"F">>, <<"f", "a", "l", "s", "e">>,
                   <<"F", "A", "L", "S", "E">>, <<"F", "a", "l", "s", "e">>}
    THEN [ok |-> TRUE, n |-> FALSE]
    ELSE [ok |-> FALSE, n |-> FALSE]

RECURSIVE natText(_)
natText(n) == IF n < 10 THEN <<Digits[n + 1]>> ELSE natText(n \div 10) \o <<Digits[(n % 10) + 1]>>

\* strconv.FormatInt(n, 10)
FormatInt(n) == IF n < 0 THEN <<"-">> \o natText(0 - n) ELSE natText(n)

(***************************************************************************)
(* reflect.StructTag.Get: the conventional key:"value" scan of a raw tag.  *)
(***************************************************************************)
RECURSIVE skipSpaces(_)
skipSpaces(tag) == IF tag # <<>> /\ tag[1] = " " THEN skipSpaces(Tail(tag)) ELSE tag

RECURSIVE scanName(_, _)
\* the index of the first space, colon or quote at or after i
scanName(tag, i) ==
    IF i < Len(tag) /\ tag[i + 1] \notin {" ", ":", "\""} THEN scanName(tag, i + 1) ELSE i

RECURSIVE scanQuoted(_, _)
\* the index of the closing quote, backslash skipping one character
scanQuoted(tag, i) ==
    IF i >= Len(tag) \/ tag[i + 1] = "\"" THEN i
    ELSE IF tag[i + 1] = "\\" THEN scanQuoted(tag, i + 2)
    ELSE scanQuoted(tag, i + 1)

RECURSIVE unescape(_)
\* the body of strconv.Unquote for a double-quoted string: \\ and \" are the
\* escapes the model's tags use, any other escape is a syntax error
unescape(s) ==
    IF s = <<>> THEN [ok |-> TRUE, v |-> <<>>]
    ELSE IF s[1] = "\\"
         THEN IF Len(s) >= 2 /\ s[2] \in {"\\", "\""}
              THEN LET r == unescape(SubSeq(s, 3, Len(s)))
                   IN  [ok |-> r.ok, v |-> <<s[2]>> \o r.v]
              ELSE [ok |-> FALSE, v |-> <<>>]
    ELSE LET r == unescape(Tail(s)) IN [ok |-> r.ok, v |-> <<s[1]>> \o r.v]

RECURSIVE TagGet_lenient(_, _)
\* a scan that lets spaces stand between the colon and the quoted value
TagGet_lenient(tag0, key) ==
    LET tag == skipSpaces(tag0)
        i   == scanName(tag, 0)
    IN  IF tag = <<>> THEN <<>>
        ELSE IF i = 0 \/ i + 1 >= Len(tag) \/ tag[i + 1] # ":" THEN <<>>
        ELSE LET name == Slice(tag, 0, i)
                 rest == skipSpaces(Slice(tag, i + 1, Len(tag)))
                 j    == scanQuoted(rest, 1)
             IN  IF rest = <<>> \/ rest[1] # "\"" \/ j >= Len(rest) THEN <<>>
                 ELSE IF key = name
                      THEN LET u == unescape(Slice(rest, 1, j))
                           IN  IF u.ok THEN u.v ELSE <<>>
                      ELSE TagGet_lenient(Slice(rest, j + 1, Len(rest)), key)

RECURSIVE TagGet(_, _)
TagGet(tag0, key) ==
    LET tag == skipSpaces(tag0)
        i   == scanName(tag, 0)
    IN  IF tag = <<>> THEN <<>>
        ELSE IF i = 0 \/ i + 1 >= Len(tag) \/ tag[i + 1] # ":" \/ tag[i + 2] # "\"" THEN <<>>
        ELSE LET name == Slice(tag, 0, i)
                 rest == Slice(tag, i + 1, Len(tag))
                 j    == scanQuoted(rest, 1)
             IN  IF j >= Len(rest) THEN <<>>
                 ELSE IF key = name
                      THEN LET u == unescape(Slice(rest, 1, j))
                           IN  IF u.ok THEN u.v ELSE <<>>
                      ELSE TagGet(Slice(rest, j + 1, Len(rest)), key)

(***************************************************************************)
(* regexp: the fragment  ^? (atom \*?)* $?  with atom a literal, a dot or  *)
(* a bracket class of characters and ranges.  A compiled pattern is       *)
(* [ok, bol, eol, items]; an item is [set, star] with set the byte values  *)
(* the atom accepts.                                                       *)
(***************************************************************************)
AllBytes == 1..127

RECURSIVE classSet(_, _, _)
\* the characters of a bracket class whose body is s[i..j]
classSet(s, i, j) ==
    IF i > j THEN {}
    ELSE IF i + 2 <= j /\ s[i + 1] = "-"
         THEN (Ord(s[i])..Ord(s[i + 2])) \cup classSet(s, i + 3, j)
    ELSE {Ord(s[i])} \cup classSet(s, i + 1, j)

RECURSIVE parseItems(_, _, _)
\* items of s from position i on (1-based); acc is what was parsed so far
parseItems(s, i, acc) ==
    IF i > Len(s) THEN [ok |-> TRUE, eol |-> FALSE, items |-> acc]
    ELSE IF s[i] = "$" /\ i = Len(s) THEN [ok |-> TRUE, eol |-> TRUE, items |-> acc]
    ELSE IF s[i] = "*"
         THEN \* missing argument to repetition operator, or a doubled star
              IF acc = <<>> \/ acc[Len(acc)].star THEN [ok |-> FALSE, eol |-> FALSE, items |-> <<>>]
              ELSE parseItems(s, i + 1,
                     [acc EXCEPT ![Len(acc)] = [set |-> acc[Len(acc)].set, star |-> TRUE]])
    ELSE IF s[i] = "["
         THEN LET close == {k \in (i + 2)..Len(s) : s[k] = "]"}
              IN  IF close = {} THEN [ok |-> FALSE, eol |-> FALSE, items |-> <<>>]
                  ELSE LET k == CHOOSE k \in close : \A m \in close : k <= m
                       IN  parseItems(s, k + 1,
                             Append(acc, [set |-> classSet(s, i + 1, k - 1), star |-> FALSE]))
    ELSE IF s[i] \in {"(", ")", "]", "\\", "+", "|"}
         THEN \* outside the fragment: unbalanced or unsupported syntax
              [ok |-> FALSE, eol |-> FALSE, items |-> <<>>]
    ELSE IF s[i] = "." THEN parseItems(s, i + 1, Append(acc, [set |-> AllBytes, star |-> FALSE]))
    ELSE parseItems(s, i + 1, Append(acc, [set |-> {Ord(s[i])}, star |-> FALSE]))

\* regexp.Compile
Compile(s) ==
    LET bol == s # <<>> /\ s[1] = "^"
        r   == parseItems(s, IF bol THEN 2 ELSE 1, <<>>)
    IN  [ok |-> r.ok, bol |-> bol, eol |-> r.eol, items |-> r.items]

RECURSIVE matchHere(_, _, _, _)
RECURSIVE matchStar(_, _, _, _, _)
\* the end (0-based) of the preferred match of items k.. of p at pos, or -1
matchHere(p, k, s, pos) ==
    IF k > Len(p.items) THEN (IF p.eol /\ pos # Len(s) THEN -1 ELSE pos)
    ELSE IF p.items[k].star
         THEN LET run == {n \in 0..(Len(s) - pos) :
                            \A q \in 1..n : Ord(s[pos + q]) \in p.items[k].set}
                  most == CHOOSE n \in run : \A m \in run : m <= n
              IN  matchStar(p, k, s, pos, most)
    ELSE IF pos < Len(s) /\ Ord(s[pos + 1]) \in p.items[k].set
         THEN matchHere(p, k + 1, s, pos + 1)
    ELSE -1

\* greedy: the longest repetition first
matchStar(p, k, s, pos, n) ==
    LET e == matchHere(p, k + 1, s, pos + n)
    IN  IF e >= 0 THEN e
        ELSE IF n = 0 THEN -1
        ELSE matchStar(p, k, s, pos, n - 1)

\* the start positions at which p may match s
matchStarts(p, s) ==
    {b \in 0..Len(s) : (p.bol => b = 0) /\ matchHere(p, 1, s, b) >= 0}

\* (*Regexp).MatchString: some match exists
MatchString(p, s) == matchStarts(p, s) # {}

\* (*Regexp).FindString: the text of the leftmost match, "" when there is none
FindString(p, s) ==
    LET starts == matchStarts(p, s)
    IN  IF starts = {} THEN <<>>
        ELSE LET b == CHOOSE b \in starts : \A c \in starts : b <= c
             IN  Slice(s, b, matchHere(p, 1, s, b))


(***************************************************************************)
(* Errors.  An error value is a record with a kind; NoErr is Go's nil.     *)
(***************************************************************************)
NoErr == [kind |-> "nil"]

\* a run-time panic that unwinds the call (slice bounds, nil function call)
PanicErr(what) == [kind |-> "panic", what |-> what]

(***************************************************************************)
(* Values handed to Validate: an interface{} holding a string, an int64,   *)
(* a uint64 or a bool.                                                     *)
(***************************************************************************)
StringValue(s) == [k |-> "string", v |-> s]

IntValue(n) == [k |-> "int64", v |-> n]

UintValue(n) == [k |-> "uint64", v |-> n]

BoolValue(b) == [k |-> "bool", v |-> b]

\* a float64, held as a whole number of hundredths
FloatValue(n) == [k |-> "float64", v |-> n]

KindText(k) ==
    CASE k = "string" -> <<"s", "t", "r", "i", "n", "g">>
      [] k = "int"    -> <<"i", "n", "t">>
      [] k = "int8"   -> <<"i", "n", "t", "8">>
      [] k = "int64"  -> <<"i", "n", "t", "6", "4">>
      [] k = "uint"   -> <<"u", "i", "n", "t">>
      [] k = "float32" -> <<"f", "l", "o", "a", "t", "3", "2">>
      [] k = "float64" -> <<"f", "l", "o", "a", "t", "6", "4">>
      [] k = "uint8"  -> <<"u", "i", "n", "t", "8">>
      [] k = "uint64" -> <<"u", "i", "n", "t", "6", "4">>
      [] k = "bool"   -> <<"b", "o", "o", "l">>
      [] k = "slice"  -> <<"s", "l", "i", "c", "e">>
      [] OTHER        -> <<"s", "t", "r", "u", "c", "t">>

\* reflect.Value.String(): the string itself for a string, "<T Value>" otherwise
ValueString(val) ==
    IF val.k = "string" THEN val.v
    ELSE <<"<">> \o KindText(val.k) \o <<" ", "V", "a", "l", "u", "e", ">">>

(***************************************************************************)
(* Floats.  A float is held as a whole number of hundredths; the texts the *)
(* model converts are plain decimals, an optional sign, digits and an      *)
(* optional point, with at most two digits after the point.                *)
(***************************************************************************)
AllDigits(s) == \A i \in 1..Len(s) : IsDigit(s[i])

\* the hundredths a fraction of at most two digits denotes
fractionValue(fp) ==
    IF Len(fp) = 0 THEN 0
    ELSE IF Len(fp) = 1 THEN 10 * digitsValue(fp)
    ELSE digitsValue(SubSeq(fp, 1, 2))

\* the value of an unsigned decimal with its integer and fraction digits
decimalValue(ip, fp) ==
    IF AllDigits(ip) /\ AllDigits(fp) /\ (ip # <<>> \/ fp # <<>>)
    THEN [ok |-> TRUE, n |-> 100 * digitsValue(ip) + fractionValue(fp)]
    ELSE [ok |-> FALSE, n |-> 0]

unsignedFloat(u) ==
    IF Index(u, <<".">>) < 0 THEN decimalValue(u, <<>>)
    ELSE decimalValue(Slice(u, 0, Index(u, <<".">>)), Slice(u, Index(u, <<".">>) + 1, Len(u)))

negated(r) == [ok |-> r.ok, n |-> 0 - r.n]

\* strconv.ParseFloat(s, 64) on a plain decimal
ParseFloat(s) ==
    IF s = <<>> THEN [ok |-> FALSE, n |-> 0]
    ELSE IF s[1] = "-" THEN negated(unsignedFloat(Tail(s)))
    ELSE IF s[1] = "+" THEN unsignedFloat(Tail(s))
    ELSE unsignedFloat(s)

\* the exponent part of the 'e' format: a sign and at least two digits
exponentText(e) ==
    (IF e < 0 THEN <<"e", "-">> ELSE <<"e", "+">>)
    \o (IF e < 0 THEN (IF 0 - e < 10 THEN <<"0">> ELSE <<>>) \o natText(0 - e)
        ELSE (IF e < 10 THEN <<"0">> ELSE <<>>) \o natText(e))

\* the 'e' format with 10 digits after the point of the number whose
\* hundredths have the decimal digits d
mantissaText(d) ==
    <<d[1]>> \o <<".">> \o Tail(d) \o [i \in 1..(11 - Len(d)) |-> "0"]
    \o exponentText(Len(d) - 3)

\* strconv.FormatFloat(val, 'e', 10, 64)
FormatFloat(x) ==
    IF x = 0 THEN <<"0", ".", "0", "0", "0", "0", "0", "0", "0", "0", "0", "0", "e", "+", "0", "0">>
    ELSE IF x < 0 THEN <<"-">> \o mantissaText(natText(0 - x))
    ELSE mantissaText(natText(x))

(***************************************************************************)
(* The callbacks a program registers (validator_test.go, part_001).        *)
(***************************************************************************)
HexChars == {"0", "1", "2", "3", "4", "5", "6", "7", "8", "9",
             "a", "b", "c", "d", "e", "f", "A", "B", "C", "D", "E", "F"}

\* hashCheck: hex.Decode accepts an even number of hexadecimal digits
hashCheck(s) ==
    IF Len(s) % 2 = 0 /\ \A i \in 1..Len(s) : s[i] \in HexChars
    THEN NoErr
    ELSE [kind |-> "callback", fn |-> "hashCheck"]

testOkFn(s) == NoErr

testBadFn(s) == [kind |-> "callback", fn |-> "testBadFn"]

\* calling a func(string) error value; "nil" is the nil function
callFn(fn, s) ==
    CASE fn = "hashCheck" -> hashCheck(s)
      [] fn = "testOkFn"  -> testOkFn(s)
      [] fn = "testBadFn" -> testBadFn(s)
      [] OTHER            -> PanicErr("nil func")

(***************************************************************************)
(* Validator objects and their Validate methods.                           *)
(***************************************************************************)
regexMatch == 0

regexFind == 1

ValidationError(param, value) ==
    [kind |-> "ValidationError", Param |-> param, Value |-> value]

\* a range check that excludes its bounds
rangeIntValidate_exclusive(r, param, value) ==
    IF value.v <= r.Min \/ value.v >= r.Max
    THEN ValidationError(param, FormatInt(value.v))
    ELSE NoErr

rangeIntValidate_Validate(r, param, value) ==
    IF value.v < r.Min \/ value.v > r.Max
    THEN ValidationError(param, FormatInt(value.v))
    ELSE NoErr

rangeUintValidate_Validate(r, param, value) ==
    IF value.v < r.Min \/ value.v > r.Max
    THEN ValidationError(param, FormatInt(value.v))
    ELSE NoErr

rangeFloatValidate_Validate(r, param, value) ==
    IF value.v < r.Min \/ value.v > r.Max
    THEN ValidationError(param, FormatFloat(value.v))
    ELSE NoErr

\* a length check that excludes its upper bound
lenValidate_exclusive(r, param, value) ==
    IF Len(ValueString(value)) < r.Min \/ Len(ValueString(value)) >= r.Max
    THEN ValidationError(param, ValueString(value))
    ELSE NoErr

lenValidate_Validate(r, param, value) ==
    LET val == ValueString(value)
        l   == Len(val)
    IN  IF l < r.Min \/ l > r.Max THEN ValidationError(param, val) ELSE NoErr

regexValidate_Validate(r, param, value) ==
    LET val == ValueString(value)
        pat == Compile(r.Pattern)
    IN  IF r.MatchType = regexMatch
        THEN IF ~MatchString(pat, val) THEN ValidationError(param, val) ELSE NoErr
        ELSE IF r.MatchType = regexFind
        THEN IF FindString(pat, val) = <<>> THEN ValidationError(param, val) ELSE NoErr
        ELSE NoErr

userValidate_Validate(u, param, value) == callFn(u.validateFn, ValueString(value))

\* dynamic dispatch of Validater.Validate
Validate(vd, param, value) ==
    CASE vd.vt = "rangeInt"  -> rangeIntValidate_Validate(vd, param, value)
      [] vd.vt = "rangeUint" -> rangeUintValidate_Validate(vd, param, value)
      [] vd.vt = "rangeFloat" -> rangeFloatValidate_Validate(vd, param, value)
      [] vd.vt = "len"       -> lenValidate_Validate(vd, param, value)
      [] vd.vt = "regex"     -> regexValidate_Validate(vd, param, value)
      [] vd.vt = "user"      -> userValidate_Validate(vd, param, value)

(***************************************************************************)
(* Constructors of the len and range validators.                           *)
(***************************************************************************)
NoValidator == [vt |-> "none"]

IntKinds == {"int", "int8", "int16", "int32", "int64"}

UintKinds == {"uint", "uint8", "uint16", "uint32", "uint64", "uintptr"}

FloatKinds == {"float32", "float64"}

\* what a constructor returns: a validator, an error, or a panic
Built(v) == [panic |-> FALSE, err |-> NoErr, v |-> v]

Failed(e) == [panic |-> FALSE, err |-> e, v |-> NoValidator]

Panicked(what) == [panic |-> TRUE, err |-> PanicErr(what), v |-> NoValidator]

ValidatorFuncError(value, type, name) ==
    [kind |-> "ValidatorFuncError", Value |-> value, Type |-> type, Name |-> name]

ValidatorTypeError(func, param, type) ==
    [kind |-> "ValidatorTypeError", Func |-> func, Param |-> param, Type |-> type]

\* data[Index(data,"(")+1 : Index(data,")")] split on ":"; the slice
\* expression panics when its bounds are out of order
getArguments(data, fname) ==
    LET lo == Index(data, <<"(">>) + 1
        hi == Index(data, <<")">>)
    IN  IF hi < lo
        THEN [panic |-> TRUE, err |-> PanicErr("slice bounds"), min |-> <<>>, max |-> <<>>]
        ELSE LET vals == Split(Slice(data, lo, hi), <<":">>)
             IN  IF Len(vals) # 2
                 THEN [panic |-> FALSE, err |-> [kind |-> "arguments", Name |-> fname],
                       min |-> <<>>, max |-> <<>>]
                 ELSE [panic |-> FALSE, err |-> NoErr, min |-> vals[1], max |-> vals[2]]

maxLessMin(min, max) == <<"m", "a", "x", " ">> \o max \o <<" ", "<", " ">> \o min \o <<" ", "m", "i", "n">>

\* a parser of the arguments that does not compare them
intFuncArguments_unordered(min, max, fname) ==
    IF ~ParseInt(min).ok THEN [err |-> ValidatorFuncError(min, "Int", fname), min |-> -1, max |-> -1]
    ELSE IF ~ParseInt(max).ok
         THEN [err |-> ValidatorFuncError(max, "Int", fname), min |-> -1, max |-> -1]
    ELSE [err |-> NoErr, min |-> ParseInt(min).n, max |-> ParseInt(max).n]

intFuncArguments(min, max, fname) ==
    LET nmin == ParseInt(min)
        nmax == ParseInt(max)
    IN  IF ~nmin.ok THEN [err |-> ValidatorFuncError(min, "Int", fname), min |-> -1, max |-> -1]
        ELSE IF ~nmax.ok THEN [err |-> ValidatorFuncError(max, "Int", fname), min |-> -1, max |-> -1]
        ELSE IF nmax.n < nmin.n
             THEN [err |-> ValidatorFuncError(maxLessMin(min, max), "Int", fname),
                   min |-> -1, max |-> -1]
        ELSE [err |-> NoErr, min |-> nmin.n, max |-> nmax.n]

uintFuncArguments(min, max, fname) ==
    LET nmin == ParseUint(min)
        nmax == ParseUint(max)
    IN  IF ~nmin.ok THEN [err |-> ValidatorFuncError(min, "Uint", fname), min |-> 0, max |-> 0]
        ELSE IF ~nmax.ok THEN [err |-> ValidatorFuncError(min, "Uint", fname), min |-> 0, max |-> 0]
        ELSE IF nmax.n < nmin.n
             THEN [err |-> ValidatorFuncError(maxLessMin(min, max), "Uint", fname),
                   min |-> 0, max |-> 0]
        ELSE [err |-> NoErr, min |-> nmin.n, max |-> nmax.n]

floatFuncArguments(min, max, fname) ==
    LET nmin == ParseFloat(min)
        nmax == ParseFloat(max)
    IN  IF ~nmin.ok THEN [err |-> ValidatorFuncError(min, "Float", fname), min |-> 0, max |-> 0]
        ELSE IF ~nmax.ok THEN [err |-> ValidatorFuncError(max, "Float", fname), min |-> 0, max |-> 0]
        ELSE IF nmax.n < nmin.n
             THEN [err |-> ValidatorFuncError(maxLessMin(min, max), "Float", fname),
                   min |-> 0, max |-> 0]
        ELSE [err |-> NoErr, min |-> nmin.n, max |-> nmax.n]

\* a constructor of the length validator that accepts a field of any kind
newLenValidator_anyKind(input, fname, f, kind) ==
    LET a == getArguments(input, fname)
    IN  IF a.panic THEN Panicked("slice bounds")
        ELSE IF a.err # NoErr THEN Failed(a.err)
        ELSE IF ~Atoi(a.min).ok THEN Failed(ValidatorFuncError(a.min, kind, fname))
        ELSE IF ~Atoi(a.max).ok THEN Failed(ValidatorFuncError(a.max, kind, fname))
        ELSE Built([vt |-> "len", Min |-> Atoi(a.min).n, Max |-> Atoi(a.max).n])

newLenValidator(input, fname, f, kind) ==
    IF kind # "string" THEN Failed(ValidatorTypeError("len", f.param, kind))
    ELSE LET a == getArguments(input, fname)
         IN  IF a.panic THEN Panicked("slice bounds")
             ELSE IF a.err # NoErr THEN Failed(a.err)
             ELSE LET nmin == Atoi(a.min)
                      nmax == Atoi(a.max)
                  IN  IF ~nmin.ok THEN Failed(ValidatorFuncError(a.min, kind, fname))
                      ELSE IF ~nmax.ok THEN Failed(ValidatorFuncError(a.max, kind, fname))
                      ELSE IF nmax.n < nmin.n
                           THEN Failed(ValidatorFuncError(maxLessMin(a.min, a.max), kind, fname))
                      ELSE Built([vt |-> "len", Min |-> nmin.n, Max |-> nmax.n])

newRangeValidator(input, fname, f, kind) ==
    IF kind = "string" THEN Failed(ValidatorTypeError("range", f.param, kind))
    ELSE LET a == getArguments(input, fname)
         IN  IF a.panic THEN Panicked("slice bounds")
             ELSE IF a.err # NoErr THEN Failed(a.err)
             ELSE IF kind \in IntKinds
                  THEN LET r == intFuncArguments(a.min, a.max, fname)
                       IN  IF r.err # NoErr THEN Failed(r.err)
                           ELSE Built([vt |-> "rangeInt", Min |-> r.min, Max |-> r.max])
             ELSE IF kind \in UintKinds
                  THEN LET r == uintFuncArguments(a.min, a.max, fname)
                       IN  IF r.err # NoErr THEN Failed(r.err)
                           ELSE Built([vt |-> "rangeUint", Min |-> r.min, Max |-> r.max])
             ELSE IF kind \in FloatKinds
                  THEN LET r == floatFuncArguments(a.min, a.max, fname)
                       IN  IF r.err # NoErr THEN Failed(r.err)
                           ELSE Built([vt |-> "rangeFloat", Min |-> r.min, Max |-> r.max])
             ELSE Failed([kind |-> "unsupported", Type |-> kind, Name |-> fname])

\* a parseRegex that puts the regex validator in front of the others
parseRegex_first(reg, f) ==
    LET find == HasPrefix(reg, <<"f", "i", "n", "d", ",">>)
        pat  == IF find THEN Slice(reg, 5, Len(reg))
                ELSE IF HasPrefix(reg, <<"m", "a", "t", "c", "h", ",">>) THEN Slice(reg, 6, Len(reg))
                ELSE reg
    IN  IF ~Compile(pat).ok THEN [err |-> [kind |-> "regexp", Pattern |-> pat], f |-> f]
        ELSE [err |-> NoErr,
              f |-> [f EXCEPT !.validators =
                        <<[vt |-> "regex",
                           MatchType |-> IF find THEN regexFind ELSE regexMatch,
                           Pattern |-> pat]>> \o @]]

\* parseRegex: the mode prefix, then regexp.Compile; the validator is appended
parseRegex(reg, f) ==
    LET find == HasPrefix(reg, <<"f", "i", "n", "d", ",">>)
        pat  == IF find THEN Slice(reg, 5, Len(reg))
                ELSE IF HasPrefix(reg, <<"m", "a", "t", "c", "h", ",">>) THEN Slice(reg, 6, Len(reg))
                ELSE reg
    IN  IF ~Compile(pat).ok THEN [err |-> [kind |-> "regexp", Pattern |-> pat], f |-> f]
        ELSE [err |-> NoErr,
              f |-> [f EXCEPT !.validators =
                        Append(@, [vt |-> "regex",
                                   MatchType |-> IF find THEN regexFind ELSE regexMatch,
                                   Pattern |-> pat])]]


(***************************************************************************)
(* The record types of the program under analysis (validator_test.go).     *)
(* A field declaration is its name, kind (elem for a slice), raw struct    *)
(* tag and whether it is exported (reflect's CanSet).                      *)
(***************************************************************************)
Decl(name, kind, elem, tag, exported) ==
    [name |-> name, kind |-> kind, elem |-> elem, tag |-> tag, exported |-> exported]

StructTypes ==
    [HashForm |-> <<
        Decl("Hash", "string", "none", <<"v", "a", "l", "i", "d", "a", "t", "e", ":", "\"", "h", ",", "h", "a", "s", "h", "\"">>, TRUE)>>,
     SomeForm |-> <<
        Decl("Name", "string", "none", <<"v", "a", "l", "i", "d", "a", "t", "e", ":", "\"", "n", "a", "m", "e", ",", "l", "e", "n", "(", "0", ":", "5", ")", "\"">>, TRUE),
        Decl("Age", "int", "none", <<"v", "a", "l", "i", "d", "a", "t", "e", ":", "\"", "a", "g", "e", ",", "r", "a", "n", "g", "e", "(", "1", ":", "1", "0", ")", "\"">>, TRUE)>>,
     CachedForm2 |-> <<
        Decl("Name", "string", "none", <<"v", "a", "l", "i", "d", "a", "t", "e", ":", "\"", "n", "a", "m", "e", ",", "l", "e", "n", "(", "0", ":", "5", ")", "\"">>, TRUE),
        Decl("Age", "int", "none", <<"v", "a", "l", "i", "d", "a", "t", "e", ":", "\"", "a", "g", "e", ",", "r", "a", "n", "g", "e", "(", "2", ":", "1", "0", ")", "\"">>, TRUE)>>,
     User |-> <<
        Decl("Name", "string", "none", <<"v", "a", "l", "i", "d", "a", "t", "e", ":", "\"", "n", "a", "m", "e", "\"", " ", "r", "e", "g", "e", "x", ":", "\"", "^", "[", "a", "-", "z", "]", "*", "$", "\"">>, TRUE),
        Decl("Age", "int8", "none", <<"v", "a", "l", "i", "d", "a", "t", "e", ":", "\"", "a", "g", "e", ",", "o", "p", "t", "i", "o", "n", "a", "l", "\"">>, TRUE),
        Decl("State", "string", "none",
             <<"v", "a", "l", "i", "d", "a", "t", "e", ":", "\"", "s", "t", "a", "t", "e", ",", "l", "e", "n", "(", "2", ":", "2", ")", "\"", " ", "r", "e", "g", "e", "x", ":", "\"", "^", "[", "A", "-", "Z", "a", "-", "z", "]", "*", "$", "\"">>, TRUE),
        Decl("Internal", "string", "none", <<>>, TRUE)>>,
     SliceyUser |-> <<
        Decl("Name", "slice", "string", <<"v", "a", "l", "i", "d", "a", "t", "e", ":", "\"", "n", "a", "m", "e", "\"", " ", "r", "e", "g", "e", "x", ":", "\"", "^", "[", "a", "-", "z", "]", "*", "$", "\"">>, TRUE),
        Decl("Age", "slice", "int", <<"v", "a", "l", "i", "d", "a", "t", "e", ":", "\"", "a", "g", "e", ",", "r", "a", "n", "g", "e", "(", "1", ":", "1", "0", ")", "\"">>, TRUE)>>,
     BadRegexField |-> <<
        Decl("Name", "string", "none", <<"v", "a", "l", "i", "d", "a", "t", "e", ":", "\"", "b", "r", "e", "g", "\"", " ", "r", "e", "g", "e", "x", ":", " ", "\"", "^", "(", "j", "o", "h", "n", ")", "\"">>, TRUE)>>,
     BadRegexFieldTwo |-> <<
        Decl("Name", "string", "none", <<"v", "a", "l", "i", "d", "a", "t", "e", ":", "\"", "b", "r", "e", "g", "2", "\"", " ", "r", "e", "g", "e", "x", ",", "\"", "^", "(", "j", "o", "h", "n", ")", "\"">>, TRUE)>>,
     BadRegexFieldThree |-> <<
        Decl("Name", "string", "none", <<"v", "a", "l", "i", "d", "a", "t", "e", ":", "\"", "b", "r", "e", "g", "3", "\"", " ", "r", "e", "g", "e", "x", ":", "'", "^", "(", "j", "o", "h", "n", ")", "'">>, TRUE)>>,
     BadFieldCommaSeperated |-> <<
        Decl("Name", "string", "none", <<"v", "a", "l", "i", "d", "a", "t", "e", ":", "\"", "b", "f", "c", "s", "\"", ",", "r", "e", "g", "e", "x", ":", "\"", "^", "(", "j", "o", "h", "n", ")", "\"">>, TRUE)>>,
     BadSecondField |-> <<
        Decl("Age", "int", "none", <<"v", "a", "l", "i", "d", "a", "t", "e", ":", "\"", "a", "g", "e", "\"">>, TRUE),
        Decl("Name", "string", "none", <<"v", "a", "l", "i", "d", "a", "t", "e", ":", " ", "\"", "n", "a", "m", "e", "\"", " ", "r", "e", "g", "e", "x", ":", "\"", "^", "[", "a", "-", "z", "]", "*", "$", "\"">>, TRUE)>>,
     NonSettableField |-> <<
        Decl("name", "string", "none", <<>>, FALSE),
        Decl("Name", "string", "none", <<"v", "a", "l", "i", "d", "a", "t", "e", ":", "\"", "n", "a", "m", "e", "\"">>, TRUE),
        Decl("Zonks", "string", "none", <<"v", "a", "l", "i", "d", "a", "t", "e", ":", "\"", "n", "a", "m", "e", ",", "o", "p", "t", "i", "o", "n", "a", "l", "\"">>, TRUE)>>,
     UnVerifiedFieldsUser |-> <<
        Decl("IwantThis", "string", "none", <<"v", "a", "l", "i", "d", "a", "t", "e", ":", "\"", "t", "h", "i", "s", "\"", " ", "r", "e", "g", "e", "x", ":", "\"", "^", "[", "a", "-", "z", "]", "*", "$", "\"">>, TRUE),
        Decl("IdontWantThis", "string", "none", <<>>, TRUE),
        Decl("AndNotThis", "string", "none", <<>>, TRUE)>>,
     HashFormTwo |-> <<
        Decl("Hash", "string", "none", <<"v", "a", "l", "i", "d", "a", "t", "e", ":", "\"", "h", ",", "h", "a", "s", "h", ",", "l", "e", "n", "(", "3", "2", ":", "3", "2", ")", "\"">>, TRUE)>>,
     LenThreeArgs |-> <<
        Decl("Name", "string", "none", <<"v", "a", "l", "i", "d", "a", "t", "e", ":", "\"", "n", "a", "m", "e", ",", "l", "e", "n", "(", "0", ":", "3", ":", "4", ")", "\"">>, TRUE)>>,
     LenDoubleParen |-> <<
        Decl("Name", "string", "none", <<"v", "a", "l", "i", "d", "a", "t", "e", ":", "\"", "n", "a", "m", "e", ",", "l", "e", "n", "(", "(", "0", ":", "3", ")", "\"">>, TRUE)>>,
     LenEmptyArg |-> <<
        Decl("Name", "string", "none", <<"v", "a", "l", "i", "d", "a", "t", "e", ":", "\"", "n", "a", "m", "e", ",", "l", "e", "n", "(", ":", "3", ")", "\"">>, TRUE)>>,
     LenComma |-> <<
        Decl("Name", "string", "none", <<"v", "a", "l", "i", "d", "a", "t", "e", ":", "\"", "n", "a", "m", "e", ",", "l", "e", "n", "(", "1", ",", "3", ")", "\"">>, TRUE)>>,
     RangeComma |-> <<
        Decl("Age", "int", "none", <<"v", "a", "l", "i", "d", "a", "t", "e", ":", "\"", "a", "g", "e", ",", "r", "a", "n", "g", "e", "(", "1", ",", "3", ")", "\"">>, TRUE)>>,
     LenNoParens |-> <<
        Decl("Name", "string", "none", <<"v", "a", "l", "i", "d", "a", "t", "e", ":", "\"", "n", "a", "m", "e", ",", "l", "e", "n", "\"">>, TRUE)>>,
     LenCheckForm |-> <<
        Decl("Name", "string", "none", <<"v", "a", "l", "i", "d", "a", "t", "e", ":", "\"", "n", "a", "m", "e", ",", "l", "e", "n", "C", "h", "e", "c", "k", "\"">>, TRUE)>>,
     RangeCheckForm |-> <<
        Decl("Age", "int", "none", <<"v", "a", "l", "i", "d", "a", "t", "e", ":", "\"", "a", "g", "e", ",", "r", "a", "n", "g", "e", "C", "h", "e", "c", "k", "\"">>, TRUE)>>]

TypeNames == DOMAIN StructTypes

\* the record types of validator_test.go and of the README that compile, and
\* the first of the malformed ones
FormTypes == {"HashForm", "SomeForm", "CachedForm2", "User", "SliceyUser", "BadRegexField"}

\* the record types whose tags are malformed, leave fields untagged, list
\* several validators or name a function
TagTypes == (TypeNames \ FormTypes) \cup {"BadRegexField", "User", "HashForm"}

NumField(T) == Len(StructTypes[T])

\* the zero value of a field of the given kind
ZeroOf(kind) ==
    CASE kind = "string" -> <<>>
      [] kind = "slice"  -> <<>>
      [] kind = "bool"   -> FALSE
      [] OTHER           -> 0

\* a value of the given kind that no input of the model converts to
OldOf(kind, elem) ==
    CASE kind = "string" -> <<"Z">>
      [] kind = "slice"  -> IF elem = "string" THEN <<<<"Z">>>> ELSE <<77>>
      [] kind = "bool"   -> TRUE
      [] OTHER           -> 77

ZeroRecord(T) == [i \in 1..NumField(T) |-> ZeroOf(StructTypes[T][i].kind)]

OldRecord(T) == [i \in 1..NumField(T) |-> OldOf(StructTypes[T][i].kind, StructTypes[T][i].elem)]

(***************************************************************************)
(* verifiedAssign and assign (validator.go).                               *)
(***************************************************************************)
TypeError(value, param, type) ==
    [kind |-> "TypeError", Value |-> value, Param |-> param, Type |-> type]

IntBits(kind) ==
    CASE kind = "int8" -> 8 [] kind = "int16" -> 16 [] kind = "uint8" -> 8
      [] kind = "uint16" -> 16 [] OTHER -> 64

\* a conversion that never reports an overflow
OverflowInt_never(kind, n) == FALSE

\* reflect.Value.OverflowInt for the field's width
OverflowInt(kind, n) ==
    IntBits(kind) < 64 /\ (n < 0 - 2 ^ (IntBits(kind) - 1) \/ n > 2 ^ (IntBits(kind) - 1) - 1)

\* reflect.Value.OverflowUint for the field's width
OverflowUint(kind, n) == IntBits(kind) < 64 /\ n > 2 ^ IntBits(kind) - 1

RECURSIVE runValidators(_, _, _, _)
\* the loop over f.validators from position k: the first error ends it
runValidators(vs, param, value, k) ==
    IF k > Len(vs) THEN [err |-> NoErr, ran |-> k - 1]
    ELSE LET then(e) == IF e.kind # "nil" THEN [err |-> e, ran |-> k]
                        ELSE runValidators(vs, param, value, k + 1)
         IN  then(Validate(vs[k], param, value))

\* the outcome of verifiedAssign: the error, whether the conversion was
\* attempted, how many validators were invoked, whether settable was set
\* and to what
Outcome(err, conv, ran, set, val) ==
    [err |-> err, conv |-> conv, ran |-> ran, set |-> set, val |-> val]

\* the validators ran on the converted value n: the first error returns,
\* else settable is set to n
validated(r, conv, n, zero) ==
    IF r.err.kind # "nil" THEN Outcome(r.err, conv, r.ran, FALSE, zero)
    ELSE Outcome(NoErr, conv, r.ran, TRUE, n)

\* the conversion gave n: a failed or overflowing conversion is a TypeError,
\* else the validators run on the converted value
converted(n, overflow, value, s, f, kind, zero) ==
    IF ~n.ok \/ overflow
    THEN Outcome(TypeError(f.param, s, kind), TRUE, 0, FALSE, zero)
    ELSE validated(runValidators(f.validators, f.param, value, 1), TRUE, n.n, zero)

intConverted(n, s, f, kind) ==
    converted(n, n.ok /\ OverflowInt(kind, n.n), IntValue(n.n), s, f, kind, 0)

uintConverted(n, s, f, kind) ==
    converted(n, n.ok /\ OverflowUint(kind, n.n), UintValue(n.n), s, f, kind, 0)

boolConverted(n, s, f, kind) ==
    converted(n, FALSE, BoolValue(n.n), s, f, kind, FALSE)

\* no text of the model overflows a float32 or a float64
floatConverted(n, s, f, kind) ==
    converted(n, FALSE, FloatValue(n.n), s, f, kind, 0)

verifiedAssign(s, f, kind) ==
    IF kind = "string"
    THEN validated(runValidators(f.validators, f.param, StringValue(s), 1), FALSE, s, <<>>)
    ELSE IF kind \in IntKinds THEN intConverted(ParseInt(s), s, f, kind)
    ELSE IF kind \in UintKinds THEN uintConverted(ParseUint(s), s, f, kind)
    ELSE IF kind \in FloatKinds THEN floatConverted(ParseFloat(s), s, f, kind)
    ELSE IF kind = "bool" THEN boolConverted(ParseBool(s), s, f, kind)
    ELSE Outcome([kind |-> "unsupported", Type |-> kind, Param |-> f.param],
                 FALSE, 0, FALSE, 0)

\* params[f.param]: a missing key reads as the nil slice
Values(params, param) == IF param \in DOMAIN params THEN params[param] ELSE <<>>

\* one entry of the trace of an assign call
Event(ev, field, elem, n) == [ev |-> ev, field |-> field, elem |-> elem, n |-> n]

\* the events of one verifiedAssign call on element elem of field index
EventsOf(o, index, elem) ==
    (IF o.conv THEN <<Event("convert", index, elem, 0)>> ELSE <<>>)
    \o [k \in 1..o.ran |-> Event("validate", index, elem, k)]
    \o (IF o.set THEN <<Event("set", index, elem, 0)>> ELSE <<>>)

RECURSIVE assignSlice_keepGoing(_, _, _, _, _)
\* a loop that remembers the first error but goes on to the next elements
assignSlice_keepGoing(values, f, elem, st, i) ==
    IF i > Len(values) THEN st
    ELSE LET then(o) ==
                 assignSlice_keepGoing(values, f, elem,
                     [slice |-> IF o.set THEN [st.slice EXCEPT ![i] = o.val] ELSE st.slice,
                      err |-> IF st.err.kind # "nil" THEN st.err ELSE o.err,
                      log |-> st.log \o EventsOf(o, f.index, i)],
                     i + 1)
         IN  then(verifiedAssign(values[i], f, elem))

RECURSIVE assignSlice(_, _, _, _, _)
\* the loop over values of a slice field from element i (1-based): st is
\* [slice, err, log]
assignSlice(values, f, elem, st, i) ==
    IF i > Len(values) THEN st
    ELSE LET then(o) ==
                 IF o.err.kind # "nil"
                 THEN [slice |-> st.slice, err |-> o.err,
                       log |-> st.log \o EventsOf(o, f.index, i)]
                 ELSE assignSlice(values, f, elem,
                        [slice |-> [st.slice EXCEPT ![i] = o.val], err |-> NoErr,
                         log |-> st.log \o EventsOf(o, f.index, i)],
                        i + 1)
         IN  then(verifiedAssign(values[i], f, elem))

\* the legacy test, which skips an optional field only when no value came
skipOptional_legacy(values, optional) == Len(values) = 0 /\ optional = TRUE

\* (size == 0 || size == 1 && values[0] == "") && f.optional == true
skipOptional(values, optional) ==
    (Len(values) = 0 \/ (Len(values) = 1 /\ values[1] = <<>>)) /\ optional = TRUE

\* a check that lets a missing required parameter pass as skipped
presence_skipsMissing(values, optional) ==
    IF Len(values) = 0 \/ skipOptional(values, optional) THEN "skip" ELSE "process"

\* the check at the head of the loop body: is the parameter required and
\* missing, is the field skipped, or is it processed
presence(values, optional) ==
    IF Len(values) = 0 /\ optional = FALSE THEN "missing"
    ELSE IF skipOptional(values, optional) THEN "skip"
    ELSE "process"

\* the field after its slice was made and filled: r is [slice, err, log]
sliceAssigned(r, f, st) ==
    [rec |-> [st.rec EXCEPT ![f.index + 1] = r.slice], err |-> r.err, log |-> r.log]

\* the field after verifiedAssign(values[0], &f, settable) gave outcome o
scalarAssigned(o, f, st) ==
    [rec |-> IF o.set THEN [st.rec EXCEPT ![f.index + 1] = o.val] ELSE st.rec,
     err |-> o.err,
     log |-> st.log \o EventsOf(o, f.index, 0)]

\* the loop body once the field is known to be processed
processField(values, f, decl, st) ==
    IF decl.kind = "slice"
    THEN sliceAssigned(
             assignSlice(values, f, decl.elem,
                 [slice |-> [i \in 1..Len(values) |-> ZeroOf(decl.elem)], err |-> NoErr,
                  log |-> Append(st.log, Event("make", f.index, 0, Len(values)))], 1),
             f, st)
    ELSE scalarAssigned(verifiedAssign(values[1], f, decl.kind), f, st)

\* the loop body after values := params[f.param]
checkedField(what, values, f, decl, st) ==
    IF what = "missing"
    THEN [st EXCEPT !.err = [kind |-> "missing", Param |-> f.param]]
    ELSE IF what = "skip" THEN st
    ELSE processField(values, f, decl, st)

\* a loop body that does not skip the fields without a parameter name
assignField_noSkip(params, f, decl, st) ==
    IF ~decl.exported
    THEN [st EXCEPT !.err = [kind |-> "notSettable", Field |-> f.name]]
    ELSE checkedField(presence(Values(params, f.param), f.optional),
                      Values(params, f.param), f, decl, st)

\* one iteration of the loop of assign over fields: st is [rec, err, log]
assignField(params, f, decl, st) ==
    IF f.param = <<>> THEN st
    ELSE IF ~decl.exported
         THEN [st EXCEPT !.err = [kind |-> "notSettable", Field |-> f.name]]
    ELSE checkedField(presence(Values(params, f.param), f.optional),
                      Values(params, f.param), f, decl, st)

RECURSIVE assignFrom_keepGoing(_, _, _, _, _)
\* a loop that remembers the first error but goes on to the next fields
assignFrom_keepGoing(params, fields, T, st, k) ==
    IF k > Len(fields) THEN st
    ELSE LET then(nx) ==
                 assignFrom_keepGoing(params, fields, T,
                     [nx EXCEPT !.err = IF st.err.kind # "nil" THEN st.err ELSE nx.err],
                     k + 1)
         IN  then(assignField(params, fields[k], StructTypes[T][fields[k].index + 1],
                              [st EXCEPT !.err = NoErr]))

RECURSIVE assignFrom(_, _, _, _, _)
\* the loop of assign from field k: the first error returns
assignFrom(params, fields, T, st, k) ==
    IF k > Len(fields) THEN st
    ELSE LET then(nx) == IF nx.err.kind # "nil" THEN nx
                         ELSE assignFrom(params, fields, T, nx, k + 1)
         IN  then(assignField(params, fields[k], StructTypes[T][fields[k].index + 1], st))

\* assign(params, fields, v) for a record v of type T holding rec
assign(params, fields, T, rec) ==
    assignFrom(params, fields, T, [rec |-> rec, err |-> NoErr, log |-> <<>>], 1)


(***************************************************************************)
(* The tag compiler: setDirectives, parseValidate (validaters.go) inside   *)
(* the field loop of getFields (validator.go).  It is pure up to the       *)
(* lookup of a custom function in userFns, which reads shared state: the   *)
(* compiler therefore runs as a coroutine that stops at each lookup.  Its  *)
(* position is [i, j, f, dirs, fields]: field i, directive j of dirs, the  *)
(* descriptor f being built, the descriptors finished so far.              *)
(***************************************************************************)
TagError(tag, field) == [kind |-> "TagError", Tag |-> tag, Field |-> field]

UnknownFunction(name) == [kind |-> "unknownFunction", Name |-> name]

\* f := &field{}; f.typ, f.name, f.index set by getFields
NewField(T, i) ==
    [name |-> StructTypes[T][i].name, param |-> <<>>,
     typ |-> [kind |-> StructTypes[T][i].kind, elem |-> StructTypes[T][i].elem],
     optional |-> FALSE, index |-> i - 1, validators |-> <<>>]

\* kind := f.typ.Kind(), unwrapped to the element kind for a slice
DirectiveKind(f) == IF f.typ.kind = "slice" THEN f.typ.elem ELSE f.typ.kind

\* where the compiler stands when it stops
Stopped(status, err, i, j, f, dirs, fields) ==
    [status |-> status, err |-> err, i |-> i, j |-> j, f |-> f, dirs |-> dirs,
     fields |-> fields]

NoField == [name |-> "", param |-> <<>>, typ |-> [kind |-> "none", elem |-> "none"],
            optional |-> FALSE, index |-> 0, validators |-> <<>>]

RECURSIVE compileField(_, _, _)
RECURSIVE parseValidate(_, _, _, _, _, _)
RECURSIVE finishField(_, _, _, _)

\* the body of the loop of getFields for field i: setDirectives up to the
\* call of parseValidate
compileField(T, i, fields) ==
    IF i > NumField(T) THEN Stopped("done", NoErr, i, 0, NoField, <<>>, fields)
    ELSE LET tag == StructTypes[T][i].tag
             f == NewField(T, i)
             validate == TagGet(tag, <<"v", "a", "l", "i", "d", "a", "t", "e">>)
         IN  IF validate = <<>> /\ Contains(tag, <<"v", "a", "l", "i", "d", "a", "t", "e">>)
             THEN Stopped("error", TagError("validate", f.name), i, 0, f, <<>>, fields)
             ELSE LET directives == Split(validate, <<",">>)
                  IN  parseValidate(T, i, 2, [f EXCEPT !.param = directives[1]],
                                    directives, fields)

\* the loop of parseValidate from directive j (directives[1] is the param)
parseValidate(T, i, j, f, directives, fields) ==
    IF j > Len(directives) THEN finishField(T, i, f, fields)
    ELSE IF directives[j] = <<"o", "p", "t", "i", "o", "n", "a", "l">>
         THEN parseValidate(T, i, j + 1, [f EXCEPT !.optional = TRUE], directives, fields)
    ELSE IF HasPrefix(directives[j], <<"r", "a", "n", "g", "e">>)
         THEN LET b == newRangeValidator(directives[j], <<"r", "a", "n", "g", "e">>, f, DirectiveKind(f))
              IN  IF b.panic THEN Stopped("panic", b.err, i, j, f, directives, fields)
                  ELSE IF b.err.kind # "nil"
                       THEN Stopped("error", b.err, i, j, f, directives, fields)
                  ELSE parseValidate(T, i, j + 1,
                         [f EXCEPT !.validators = Append(@, b.v)], directives, fields)
    ELSE IF HasPrefix(directives[j], <<"l", "e", "n">>)
         THEN LET b == newLenValidator(directives[j], <<"l", "e", "n">>, f, DirectiveKind(f))
              IN  IF b.panic THEN Stopped("panic", b.err, i, j, f, directives, fields)
                  ELSE IF b.err.kind # "nil"
                       THEN Stopped("error", b.err, i, j, f, directives, fields)
                  ELSE parseValidate(T, i, j + 1,
                         [f EXCEPT !.validators = Append(@, b.v)], directives, fields)
    ELSE \* check custom user functions: the read of userFns is a step of its own
         Stopped("custom", NoErr, i, j, f, directives, fields)

\* setDirectives after parseValidate: the regex key, then fields[i] = *f
finishField(T, i, f, fields) ==
    LET tag == StructTypes[T][i].tag
        regex == TagGet(tag, <<"r", "e", "g", "e", "x">>)
    IN  IF regex = <<>> /\ Contains(tag, <<"r", "e", "g", "e", "x">>)
        THEN Stopped("error", TagError("regex", f.name), i, 0, f, <<>>, fields)
        ELSE LET r == parseRegex(regex, f)
             IN  IF r.err.kind # "nil" THEN Stopped("error", r.err, i, 0, f, <<>>, fields)
                 ELSE compileField(T, i + 1, Append(fields, r.f))


(***************************************************************************)
(* The program: goroutines that call Assign and Add.                       *)
(***************************************************************************)
Procs == {1, 2}

\* the inputs callers draw from
pName == <<"n", "a", "m", "e">>

pAge == <<"a", "g", "e">>

pHash == <<"h">>

pState == <<"s", "t", "a", "t", "e">>

pThis == <<"t", "h", "i", "s">>

pIdontWantThis == <<"I", "d", "o", "n", "t", "W", "a", "n", "t", "T", "h", "i", "s">>

ParamsMenu ==
    {(pName :> <<<<"j", "o", "h", "n">>>>) @@ (pAge :> <<<<"3">>>>) @@ (pHash :> <<<<"a", "b", "1", "2">>>>)
        @@ (pState :> <<<<"A", "Z">>>>),
     (pName :> <<<<"j", "o", "h", "n", "n", "y">>>>) @@ (pAge :> <<<<"3">>>>) @@ (pHash :> <<<<"z", "z">>>>),
     (pName :> <<<<"j", "o", "h", "n">>>>) @@ (pAge :> <<<<"1", "1">>>>) @@ (pState :> <<<<"A">>>>),
     (pName :> <<<<"j", "o", "h", "n">>>>) @@ (pAge :> <<<<"1">>>>),
     (pName :> <<<<"j", "o", "h", "n">>>>) @@ (pState :> <<<<"A", "Z">>>>),
     (pName :> <<<<"j", "o", "h", "n">>>>) @@ (pAge :> <<<<>>>>) @@ (pState :> <<<<"A", "1">>>>),
     (pName :> <<<<"J", "o", "h", "n">>, <<"d", "o", "e">>>>) @@ (pAge :> <<>>) @@ (pState :> <<<<"A", "Z">>>>),
     (pName :> <<<<"j", "o", "h", "n">>, <<"d", "o", "e">>, <<"a", "n", "n">>>>) @@ (pAge :> <<<<"1">>, <<"1", "2">>, <<"3">>>>),
     (pName :> <<<<"j", "o", "h", "n">>, <<"D", "o", "e">>, <<"a", "n", "n">>>>) @@ (pAge :> <<<<"1">>>>),
     (pName :> <<<<>>>>) @@ (pAge :> <<<<"3", "0", "0">>>>) @@ (pState :> <<<<"A", "Z">>>>)}

\* the params maps of the callers that exercise the tags: a key for every
\* parameter, and one that is the name of an untagged field
TagParamsMenu ==
    {(pHash :> <<<<"d", "8", "3", "5", "8", "2", "b", "4", "0", "3", "2", "5", "d", "7", "a", "3", "d", "7", "2", "3", "f", "0", "5", "3", "0", "7", "b", "7", "5", "3", "4", "a">>>>) @@ (pName :> <<<<"j", "o", "h", "n">>>>)
        @@ (pAge :> <<<<"3">>>>) @@ (pState :> <<<<"A", "Z">>>>) @@ (pThis :> <<<<"a", "b", "c">>>>)
        @@ (pIdontWantThis :> <<<<"x">>>>),
     (pHash :> <<<<"z", "z">>>>) @@ (pName :> <<<<"j", "o", "h", "n">>>>) @@ (pAge :> <<<<"3">>>>)
        @@ (pState :> <<<<"1">>>>) @@ (pThis :> <<<<"a", "B", "c">>>>) @@ (pIdontWantThis :> <<<<"x">>>>),
     (pHash :> <<<<"a", "b", "1", "2">>>>) @@ (pName :> <<<<"j", "o", "h", "n">>>>) @@ (pAge :> <<<<"3">>>>)
        @@ (pState :> <<<<"a", "1">>>>) @@ (pThis :> <<<<"a", "b", "c">>>>)}

\* the registrations of those callers: names that are not reserved
TagAddMenu ==
    {<<<<"h", "a", "s", "h">>, "hashCheck">>, <<<<"l", "e", "n", "C", "h", "e", "c", "k">>, "testOkFn">>, <<<<"r", "a", "n", "g", "e", "C", "h", "e", "c", "k">>, "testOkFn">>}

\* Add(fn, validateFn): the names and callbacks callers register
AddMenu ==
    {<<<<"h", "a", "s", "h">>, "hashCheck">>, <<<<"h", "a", "s", "h">>, "testBadFn">>, <<<<"h", "a", "s", "h">>, "nil">>,
     <<<<"o", "k", "F", "n">>, "testOkFn">>, <<<<"l", "e", "n">>, "testOkFn">>, <<<<"r", "a", "n", "g", "e">>, "testOkFn">>,
     <<<<"o", "p", "t", "i", "o", "n", "a", "l">>, "testOkFn">>}

\* what the goroutines of a scenario do: one goroutine and every input, or
\* two goroutines racing on the first use of a type and of the registry
ScenarioProcs(s) == IF s \in {"sequential", "tags"} THEN {1} ELSE Procs

ScenarioTypes(s) ==
    IF s = "sequential" THEN FormTypes
    ELSE IF s = "tags" THEN TagTypes
    ELSE {"HashForm"}

ScenarioParams(s) ==
    IF s = "sequential" THEN ParamsMenu
    ELSE IF s = "tags" THEN TagParamsMenu
    ELSE {(pName :> <<<<"j", "o", "h", "n">>>>) @@ (pAge :> <<<<"3">>>>) @@ (pHash :> <<<<"a", "b", "1", "2">>>>)}

ScenarioAdds(s) ==
    IF s = "sequential" THEN AddMenu
    ELSE IF s = "tags" THEN TagAddMenu
    ELSE {<<<<"h", "a", "s", "h">>, "hashCheck">>, <<<<"o", "k", "F", "n">>, "testOkFn">>}

ScenarioCalls(s) == IF s \in {"sequential", "tags"} THEN MaxCalls ELSE MaxCalls - 1

VARIABLES
    scenario,     \* which goroutines run and what they call
    cacheM,       \* fieldCache.m: [nil, ent], ent the map's entries by type name
    cacheLock,    \* fieldCache.RWMutex: [w, r]
    userFns,      \* the pointer userFns: 0 is nil, else an object of heap
    heap,         \* the validatorFunctions objects: [Funcs |-> [nil, ent], w, r]
    crashed,      \* a fatal runtime error ended the process
    pc,           \* where each goroutine stands
    call,         \* the arguments of its current call
    cs,           \* its position in getFields and the descriptors resolved
    res,          \* the outcome of its call
    calls,        \* how many calls it has made
    hist          \* history: by type, every list ever installed in the cache
                  \* (stored) and every list getFields returned (returned); the
                  \* types whose compilation failed (failed)

vars == <<scenario, cacheM, cacheLock, userFns, heap, crashed, pc, call, cs, res,
          calls, hist>>

NilMap == [nil |-> TRUE, ent |-> <<>>]

EmptyMap == [nil |-> FALSE, ent |-> <<>>]

\* &validatorFunctions{}: zero mutex, nil Funcs
NewObject == [Funcs |-> NilMap, w |-> FALSE, r |-> 0]

NoCall == [op |-> "none", T |-> "none", params |-> <<>>, rec0 |-> <<>>,
           fn |-> <<>>, validateFn |-> "nil"]

NoPos == Stopped("none", NoErr, 0, 0, NoField, <<>>, <<>>)

NoRes == [stage |-> "none", rec |-> <<>>, err |-> NoErr, log |-> <<>>]

InitShared ==
    /\ cacheM = NilMap
    /\ cacheLock = [w |-> FALSE, r |-> 0]
    /\ userFns = 0
    /\ heap = [o \in Procs |-> NewObject]
    /\ crashed = FALSE
    /\ pc = [p \in Procs |-> "idle"]
    /\ call = [p \in Procs |-> NoCall]
    /\ cs = [p \in Procs |-> NoPos]
    /\ res = [p \in Procs |-> NoRes]
    /\ calls = [p \in Procs |-> 0]
    /\ hist = [stored |-> [T \in TypeNames |-> {}],
               returned |-> [T \in TypeNames |-> {}],
               failed |-> {}]

Init == scenario = "sequential" /\ InitShared

InitConc == scenario = "concurrent" /\ InitShared

InitTags == scenario = "tags" /\ InitShared

\* the current call of p ends with this outcome
Finish(p, r) ==
    /\ pc' = [pc EXCEPT ![p] = "done"]
    /\ res' = [res EXCEPT ![p] = r]

Running(p) == ~crashed /\ p \in ScenarioProcs(scenario)

(***************************************************************************)
(* Assign: getFields, then assign.                                         *)
(***************************************************************************)
\* a caller invokes Assign(params, v) with v a record of type T
Assign(p) ==
    /\ Running(p) /\ pc[p] \in {"idle", "done"} /\ calls[p] < ScenarioCalls(scenario)
    /\ \E T \in ScenarioTypes(scenario), params \in ScenarioParams(scenario),
          old \in BOOLEAN :
          call' = [call EXCEPT ![p] =
                     [op |-> "Assign", T |-> T, params |-> params,
                      rec0 |-> IF old THEN OldRecord(T) ELSE ZeroRecord(T),
                      fn |-> <<>>, validateFn |-> "nil"]]
    /\ pc' = [pc EXCEPT ![p] = "gf_rlock"]
    /\ cs' = [cs EXCEPT ![p] = NoPos]
    /\ res' = [res EXCEPT ![p] = NoRes]
    /\ calls' = [calls EXCEPT ![p] = @ + 1]
    /\ UNCHANGED <<scenario, cacheM, cacheLock, userFns, heap, crashed, hist>>

\* fieldCache.RLock()
getFields_RLock(p) ==
    /\ Running(p) /\ pc[p] = "gf_rlock"
    /\ ~cacheLock.w
    /\ cacheLock' = [cacheLock EXCEPT !.r = @ + 1]
    /\ pc' = [pc EXCEPT ![p] = "gf_nilcheck"]
    /\ UNCHANGED <<scenario, cacheM, userFns, heap, crashed, call, cs, res, calls, hist>>

\* if fieldCache.m == nil
getFields_NilCheck(p) ==
    /\ Running(p) /\ pc[p] = "gf_nilcheck"
    /\ pc' = [pc EXCEPT ![p] = IF cacheM.nil THEN "gf_make" ELSE "gf_read"]
    /\ UNCHANGED <<scenario, cacheM, cacheLock, userFns, heap, crashed, call, cs, res,
                   calls, hist>>

\* fieldCache.m = make(map[reflect.Type][]field, 1)
getFields_Make(p) ==
    /\ Running(p) /\ pc[p] = "gf_make"
    /\ cacheM' = EmptyMap
    /\ pc' = [pc EXCEPT ![p] = "gf_read"]
    /\ UNCHANGED <<scenario, cacheLock, userFns, heap, crashed, call, cs, res, calls, hist>>

\* a key that identifies a record type by its field and parameter names only
cacheKey_byShape(T) == IF T = "CachedForm2" THEN "SomeForm" ELSE T

\* cacheKey := reflect.TypeOf(v): the identity of the record type
cacheKey(T) == T

\* f := fieldCache.m[cacheKey]
getFields_Read(p) ==
    /\ Running(p) /\ pc[p] = "gf_read"
    /\ cs' = [cs EXCEPT ![p] =
                IF cacheKey(call[p].T) \in DOMAIN cacheM.ent
                THEN Stopped("hit", NoErr, 0, 0, NoField, <<>>,
                             cacheM.ent[cacheKey(call[p].T)])
                ELSE NoPos]
    /\ pc' = [pc EXCEPT ![p] = "gf_runlock"]
    /\ UNCHANGED <<scenario, cacheM, cacheLock, userFns, heap, crashed, call, res, calls, hist>>

\* a compiler whose failed compilation is installed like a finished one
Continue_cacheFailure(p, c) ==
    /\ pc' = [pc EXCEPT ![p] = IF c.status = "custom" THEN "pv_nilcheck" ELSE "gf_lock"]
    /\ cs' = [cs EXCEPT ![p] = c]
    /\ UNCHANGED <<res, hist>>

\* where the compiler goes after it stopped at position c
Continue(p, c) ==
    IF c.status = "custom"
    THEN /\ pc' = [pc EXCEPT ![p] = "pv_nilcheck"]
         /\ cs' = [cs EXCEPT ![p] = c]
         /\ UNCHANGED <<res, hist>>
    ELSE IF c.status = "done"
    THEN /\ pc' = [pc EXCEPT ![p] = "gf_lock"]
         /\ cs' = [cs EXCEPT ![p] = c]
         /\ UNCHANGED <<res, hist>>
    ELSE \* return nil, err (or the panic unwinds Assign)
         /\ cs' = [cs EXCEPT ![p] = c]
         /\ hist' = [hist EXCEPT !.failed = @ \cup {call[p].T}]
         /\ Finish(p, [stage |-> "getFields", rec |-> call[p].rec0, err |-> c.err,
                       log |-> <<>>])

\* fieldCache.RUnlock(); a hit returns f, a miss starts the field loop
getFields_RUnlock(p) ==
    /\ Running(p) /\ pc[p] = "gf_runlock"
    /\ cacheLock' = [cacheLock EXCEPT !.r = @ - 1]
    /\ IF cs[p].status = "hit"
       THEN /\ pc' = [pc EXCEPT ![p] = "assign"]
            /\ hist' = [hist EXCEPT !.returned[call[p].T] = @ \cup {cs[p].fields}]
            /\ UNCHANGED <<cs, res>>
       ELSE Continue(p, compileField(call[p].T, 1, <<>>))
    /\ UNCHANGED <<scenario, cacheM, userFns, heap, crashed, call, calls>>

\* if userFns != nil ... else return unknown validation function
parseValidate_NilCheck(p) ==
    /\ Running(p) /\ pc[p] = "pv_nilcheck"
    /\ IF userFns # 0
       THEN /\ pc' = [pc EXCEPT ![p] = "pv_rlock"]
            /\ UNCHANGED <<cs, res, hist>>
       ELSE Continue(p, [cs[p] EXCEPT !.status = "error",
                                      !.err = UnknownFunction(cs[p].dirs[cs[p].j])])
    /\ UNCHANGED <<scenario, cacheM, cacheLock, userFns, heap, crashed, call, calls>>

\* userFns.RLock()
parseValidate_RLock(p) ==
    /\ Running(p) /\ pc[p] = "pv_rlock"
    /\ ~heap[userFns].w
    /\ heap' = [heap EXCEPT ![userFns].r = @ + 1]
    /\ pc' = [pc EXCEPT ![p] = "pv_test"]
    /\ UNCHANGED <<scenario, cacheM, cacheLock, userFns, crashed, call, cs, res, calls, hist>>

\* m[key] of a Go map: the nil function when the key (or the map) is missing
FuncsAt(o, name) ==
    IF name \in DOMAIN heap[o].Funcs.ent THEN heap[o].Funcs.ent[name] ELSE "nil"

\* if userFns.Funcs[directives[i]] != nil
parseValidate_Test(p) ==
    /\ Running(p) /\ pc[p] = "pv_test"
    /\ pc' = [pc EXCEPT ![p] =
                IF FuncsAt(userFns, cs[p].dirs[cs[p].j]) # "nil" THEN "pv_get"
                ELSE "pv_runlock"]
    /\ UNCHANGED <<scenario, cacheM, cacheLock, userFns, heap, crashed, call, cs, res,
                   calls, hist>>

\* userValidator := &userValidate{validateFn: userFns.Funcs[directives[i]]}
parseValidate_Get(p) ==
    /\ Running(p) /\ pc[p] = "pv_get"
    /\ cs' = [cs EXCEPT ![p].f.validators =
                Append(@, [vt |-> "user",
                           validateFn |-> FuncsAt(userFns, cs[p].dirs[cs[p].j])])]
    /\ pc' = [pc EXCEPT ![p] = "pv_runlock"]
    /\ UNCHANGED <<scenario, cacheM, cacheLock, userFns, heap, crashed, call, res, calls, hist>>

\* userFns.RUnlock(), fatal on a mutex nobody read-locked; then the next directive
parseValidate_RUnlock(p) ==
    /\ Running(p) /\ pc[p] = "pv_runlock"
    /\ IF heap[userFns].r = 0
       THEN /\ crashed' = TRUE
            /\ UNCHANGED <<heap, pc, cs, res, hist>>
       ELSE /\ heap' = [heap EXCEPT ![userFns].r = @ - 1]
            /\ Continue(p, parseValidate(call[p].T, cs[p].i, cs[p].j + 1, cs[p].f,
                                         cs[p].dirs, cs[p].fields))
            /\ UNCHANGED crashed
    /\ UNCHANGED <<scenario, cacheM, cacheLock, userFns, call, calls>>

\* fieldCache.Lock()
getFields_Lock(p) ==
    /\ Running(p) /\ pc[p] = "gf_lock"
    /\ ~cacheLock.w /\ cacheLock.r = 0
    /\ cacheLock' = [cacheLock EXCEPT !.w = TRUE]
    /\ pc' = [pc EXCEPT ![p] = "gf_install"]
    /\ UNCHANGED <<scenario, cacheM, userFns, heap, crashed, call, cs, res, calls, hist>>

\* m[key] = value of a Go map
MapPut(m, key, value) ==
    [nil |-> FALSE,
     ent |-> [k \in DOMAIN m.ent \cup {key} |-> IF k = key THEN value ELSE m.ent[k]]]

\* fieldCache.m[cacheKey] = fields
getFields_Install(p) ==
    /\ Running(p) /\ pc[p] = "gf_install"
    /\ cacheM' = MapPut(cacheM, cacheKey(call[p].T), cs[p].fields)
    /\ hist' = [hist EXCEPT !.stored[call[p].T] = @ \cup {cs[p].fields}]
    /\ pc' = [pc EXCEPT ![p] = "gf_unlock"]
    /\ UNCHANGED <<scenario, cacheLock, userFns, heap, crashed, call, cs, res, calls>>

\* fieldCache.Unlock(); return fields, nil
getFields_Unlock(p) ==
    /\ Running(p) /\ pc[p] = "gf_unlock"
    /\ cacheLock' = [cacheLock EXCEPT !.w = FALSE]
    /\ hist' = [hist EXCEPT !.returned[call[p].T] = @ \cup {cs[p].fields}]
    /\ pc' = [pc EXCEPT ![p] = "assign"]
    /\ UNCHANGED <<scenario, cacheM, userFns, heap, crashed, call, cs, res, calls>>

\* return assign(params, fields, v)
Assign_assign(p) ==
    /\ Running(p) /\ pc[p] = "assign"
    /\ LET return(r) ==
               Finish(p, [stage |-> "assign", rec |-> r.rec, err |-> r.err, log |-> r.log])
       IN  return(assign(call[p].params, cs[p].fields, call[p].T, call[p].rec0))
    /\ UNCHANGED <<scenario, cacheM, cacheLock, userFns, heap, crashed, call, cs, calls, hist>>

(***************************************************************************)
(* Add.                                                                    *)
(***************************************************************************)
\* a check that forgets the len directive
ReservedNames_noLen == {<<"o", "p", "t", "i", "o", "n", "a", "l">>, <<"r", "a", "n", "g", "e">>}

\* the names Add refuses: the built-in directives
ReservedNames == {<<"o", "p", "t", "i", "o", "n", "a", "l">>, <<"r", "a", "n", "g", "e">>, <<"l", "e", "n">>}

\* a caller invokes Add(fn, validateFn); a built-in name returns an error
Add(p) ==
    /\ Running(p) /\ pc[p] \in {"idle", "done"} /\ calls[p] < ScenarioCalls(scenario)
    /\ \E a \in ScenarioAdds(scenario) :
          /\ call' = [call EXCEPT ![p] =
                        [op |-> "Add", T |-> "none", params |-> <<>>, rec0 |-> <<>>,
                         fn |-> a[1], validateFn |-> a[2]]]
          /\ IF a[1] \in ReservedNames
             THEN Finish(p, [stage |-> "Add", rec |-> <<>>,
                             err |-> [kind |-> "builtin", Name |-> a[1]], log |-> <<>>])
             ELSE /\ pc' = [pc EXCEPT ![p] = "add_nilcheck"]
                  /\ res' = [res EXCEPT ![p] = NoRes]
    /\ cs' = [cs EXCEPT ![p] = NoPos]
    /\ calls' = [calls EXCEPT ![p] = @ + 1]
    /\ UNCHANGED <<scenario, cacheM, cacheLock, userFns, heap, crashed, hist>>

\* after userFns is known not to be nil: if validateFn != nil { ... }; return nil
AfterNilCheck(p) ==
    IF call[p].validateFn # "nil"
    THEN /\ pc' = [pc EXCEPT ![p] = "add_lock"]
         /\ UNCHANGED res
    ELSE Finish(p, [stage |-> "Add", rec |-> <<>>, err |-> NoErr, log |-> <<>>])

\* if userFns == nil
Add_NilCheck(p) ==
    /\ Running(p) /\ pc[p] = "add_nilcheck"
    /\ IF userFns = 0
       THEN /\ pc' = [pc EXCEPT ![p] = "add_new"]
            /\ UNCHANGED res
       ELSE AfterNilCheck(p)
    /\ UNCHANGED <<scenario, cacheM, cacheLock, userFns, heap, crashed, call, cs, calls, hist>>

\* userFns = &validatorFunctions{}: the object allocated by p is heap[p]
Add_New(p) ==
    /\ Running(p) /\ pc[p] = "add_new"
    /\ userFns' = p
    /\ heap' = [heap EXCEPT ![p] = NewObject]
    /\ AfterNilCheck(p)
    /\ UNCHANGED <<scenario, cacheM, cacheLock, crashed, call, cs, calls, hist>>

\* userFns.Lock()
Add_Lock(p) ==
    /\ Running(p) /\ pc[p] = "add_lock"
    /\ ~heap[userFns].w /\ heap[userFns].r = 0
    /\ heap' = [heap EXCEPT ![userFns].w = TRUE]
    /\ pc' = [pc EXCEPT ![p] = "add_funcsnil"]
    /\ UNCHANGED <<scenario, cacheM, cacheLock, userFns, crashed, call, cs, res, calls, hist>>

\* if userFns.Funcs == nil
Add_FuncsNilCheck(p) ==
    /\ Running(p) /\ pc[p] = "add_funcsnil"
    /\ pc' = [pc EXCEPT ![p] = IF heap[userFns].Funcs.nil THEN "add_makefuncs"
                               ELSE "add_store"]
    /\ UNCHANGED <<scenario, cacheM, cacheLock, userFns, heap, crashed, call, cs, res,
                   calls, hist>>

\* userFns.Funcs = map[string]func(string) error{}
Add_MakeFuncs(p) ==
    /\ Running(p) /\ pc[p] = "add_makefuncs"
    /\ heap' = [heap EXCEPT ![userFns].Funcs = EmptyMap]
    /\ pc' = [pc EXCEPT ![p] = "add_store"]
    /\ UNCHANGED <<scenario, cacheM, cacheLock, userFns, crashed, call, cs, res, calls, hist>>

\* userFns.Funcs[fn] = validateFn: a write to a nil map panics
Add_Store(p) ==
    /\ Running(p) /\ pc[p] = "add_store"
    /\ IF heap[userFns].Funcs.nil
       THEN /\ Finish(p, [stage |-> "Add", rec |-> <<>>, err |-> PanicErr("nil map"),
                          log |-> <<>>])
            /\ UNCHANGED heap
       ELSE /\ heap' = [heap EXCEPT ![userFns].Funcs =
                          MapPut(@, call[p].fn, call[p].validateFn)]
            /\ pc' = [pc EXCEPT ![p] = "add_unlock"]
            /\ UNCHANGED res
    /\ UNCHANGED <<scenario, cacheM, cacheLock, userFns, crashed, call, cs, calls, hist>>

\* userFns.Unlock(), fatal on a mutex nobody write-locked; return nil
Add_Unlock(p) ==
    /\ Running(p) /\ pc[p] = "add_unlock"
    /\ IF ~heap[userFns].w
       THEN /\ crashed' = TRUE
            /\ UNCHANGED <<heap, pc, res>>
       ELSE /\ heap' = [heap EXCEPT ![userFns].w = FALSE]
            /\ Finish(p, [stage |-> "Add", rec |-> <<>>, err |-> NoErr, log |-> <<>>])
            /\ UNCHANGED crashed
    /\ UNCHANGED <<scenario, cacheM, cacheLock, userFns, call, cs, calls, hist>>

Next ==
    \/ \E p \in Procs : Assign(p)
    \/ \E p \in Procs : getFields_RLock(p)
    \/ \E p \in Procs : getFields_NilCheck(p)
    \/ \E p \in Procs : getFields_Make(p)
    \/ \E p \in Procs : getFields_Read(p)
    \/ \E p \in Procs : getFields_RUnlock(p)
    \/ \E p \in Procs : parseValidate_NilCheck(p)
    \/ \E p \in Procs : parseValidate_RLock(p)
    \/ \E p \in Procs : parseValidate_Test(p)
    \/ \E p \in Procs : parseValidate_Get(p)
    \/ \E p \in Procs : parseValidate_RUnlock(p)
    \/ \E p \in Procs : getFields_Lock(p)
    \/ \E p \in Procs : getFields_Install(p)
    \/ \E p \in Procs : getFields_Unlock(p)
    \/ \E p \in Procs : Assign_assign(p)
    \/ \E p \in Procs : Add(p)
    \/ \E p \in Procs : Add_NilCheck(p)
    \/ \E p \in Procs : Add_New(p)
    \/ \E p \in Procs : Add_Lock(p)
    \/ \E p \in Procs : Add_FuncsNilCheck(p)
    \/ \E p \in Procs : Add_MakeFuncs(p)
    \/ \E p \in Procs : Add_Store(p)
    \/ \E p \in Procs : Add_Unlock(p)

Spec == Init /\ [][Next]_vars

SpecConc == InitConc /\ [][Next]_vars

SpecTags == InitTags /\ [][Next]_vars


(***************************************************************************)
(* Vocabulary of the properties.                                           *)
(***************************************************************************)
\* p's call was an Assign that got its descriptors and ran assign to the end
AssignDone(p) == pc[p] = "done" /\ call[p].op = "Assign" /\ res[p].stage = "assign"

\* the directives of field i of T as its validate tag spells them
TagDirectives(T, i) == Split(TagGet(StructTypes[T][i].tag, <<"v", "a", "l", "i", "d", "a", "t", "e">>), <<",">>)

TagParam(T, i) == TagDirectives(T, i)[1]

TagOptional(T, i) ==
    \E j \in 2..Len(TagDirectives(T, i)) : TagDirectives(T, i)[j] = <<"o", "p", "t", "i", "o", "n", "a", "l">>

\* the directives that are neither optional nor a len or range directive
CustomDirectives(T, i) ==
    {j \in 2..Len(TagDirectives(T, i)) :
        /\ TagDirectives(T, i)[j] # <<"o", "p", "t", "i", "o", "n", "a", "l">>
        /\ ~HasPrefix(TagDirectives(T, i)[j], <<"r", "a", "n", "g", "e">>)
        /\ ~HasPrefix(TagDirectives(T, i)[j], <<"l", "e", "n">>)}

UserValidators(f) == {k \in 1..Len(f.validators) : f.validators[k].vt = "user"}

\* the error field k of p's record raises when it is processed on its own
FieldErr(p, k) ==
    assignField(call[p].params, cs[p].fields[k], StructTypes[call[p].T][k],
                [rec |-> call[p].rec0, err |-> NoErr, log |-> <<>>]).err

FailingFields(p) == {k \in 1..Len(cs[p].fields) : FieldErr(p, k).kind # "nil"}

\* the first field in declaration order that raises an error, 0 if none does
FirstFailing(p) ==
    IF FailingFields(p) = {} THEN 0
    ELSE CHOOSE k \in FailingFields(p) : \A j \in FailingFields(p) : k <= j

\* the first failing field after k, 0 if none
NextFailing(p, k) ==
    LET later == {j \in FailingFields(p) : j > k}
    IN  IF later = {} THEN 0 ELSE CHOOSE j \in later : \A m \in later : j <= m

\* no field before k raises an error: assign reaches field k
Reached(p, k) == \A j \in 1..(k - 1) : FieldErr(p, j).kind = "nil"

\* the number a canonical decimal text denotes
NumberOf(text) == CHOOSE n \in -400..400 : FormatInt(n) = text

\* the value a field of this declaration holds once values were assigned to it
NewValue(decl, values) ==
    IF decl.kind = "string" THEN values[1]
    ELSE IF decl.kind = "slice"
         THEN [i \in 1..Len(values) |->
                 IF decl.elem = "string" THEN values[i] ELSE NumberOf(values[i])]
    ELSE NumberOf(values[1])

\* the field was given a value to assign: it is neither missing nor skipped
Supplied(T, k, values) ==
    Len(values) > 0 /\ ~(TagOptional(T, k) /\ values = <<<<>>>>)

EventsOnField(p, k) == {e \in 1..Len(res[p].log) : res[p].log[e].field = k - 1}

(***************************************************************************)
(* C1  Assign processes the tagged fields in declaration order and stops   *)
(* at the first field that raises an error: that error is returned, every  *)
(* supplied field before it holds its newly assigned value, and no field   *)
(* after it is converted, validated or written.                            *)
(***************************************************************************)
C1_FailFastInOrder ==
    \A p \in Procs : AssignDone(p) =>
        LET T == call[p].T
            k == FirstFailing(p)
            log == res[p].log
        IN  /\ \A a, b \in 1..Len(log) : a < b => log[a].field <= log[b].field
            /\ k = 0 => res[p].err.kind = "nil"
            /\ k > 0 =>
                /\ res[p].err = FieldErr(p, k)
                /\ \A j \in 1..(k - 1) :
                      IF TagParam(T, j) # <<>>
                         /\ Supplied(T, j, Values(call[p].params, TagParam(T, j)))
                      THEN res[p].rec[j] =
                             NewValue(StructTypes[T][j],
                                      Values(call[p].params, TagParam(T, j)))
                      ELSE res[p].rec[j] = call[p].rec0[j]
                /\ \A j \in (k + 1)..NumField(T) :
                      /\ res[p].rec[j] = call[p].rec0[j]
                      /\ EventsOnField(p, j) = {}

\* an Assign failed on a middle field: the field before it was newly
\* assigned and a tagged field after it exists
C1_Witness ==
    \E p \in Procs :
        /\ AssignDone(p) /\ FirstFailing(p) = 2 /\ NumField(call[p].T) > 2
        /\ TagParam(call[p].T, 3) # <<>>
        /\ res[p].rec[1] # call[p].rec0[1]
        /\ res[p].err.kind # "nil"

(***************************************************************************)
(* C2  When Assign returns an error raised by field F, scalar or sequence  *)
(* typed, F still holds the value it had before the call.                  *)
(***************************************************************************)
C2_FailingFieldUnchanged ==
    \A p \in Procs :
        (AssignDone(p) /\ FirstFailing(p) > 0) =>
            res[p].rec[FirstFailing(p)] = call[p].rec0[FirstFailing(p)]

(***************************************************************************)
(* C3  Compiling a field whose validate tag names a function that is not   *)
(* in the registry fails, whatever the state of the registry: no           *)
(* descriptor that lacks the validator of a custom directive is produced   *)
(* or cached.                                                              *)
(***************************************************************************)
MissingCustom(T, l) ==
    \E i \in 1..Len(l) :
        Cardinality(CustomDirectives(T, i)) > Cardinality(UserValidators(l[i]))

C3_UnknownFunctionFails ==
    /\ \A p \in Procs :
          (pc[p] \in {"gf_lock", "gf_install", "gf_unlock", "assign"} \/ AssignDone(p))
             => ~MissingCustom(call[p].T, cs[p].fields)
    /\ \A T \in TypeNames : \A l \in hist.stored[T] : ~MissingCustom(T, l)

(***************************************************************************)
(* C4  A failed compilation leaves the cache without an entry for the      *)
(* type, so a later Assign compiles again; once the missing function is    *)
(* registered, the next compilation succeeds and the function is applied.  *)
(***************************************************************************)
C4_FailedCompileNotCached ==
    \A p \in Procs :
        LET T == call[p].T IN
        \* a failed getFields leaves no entry
        /\ (pc[p] = "done" /\ res[p].stage = "getFields") => T \notin DOMAIN cacheM.ent
        \* only a finished compilation is installed
        /\ pc[p] \in {"gf_lock", "gf_install", "gf_unlock"} =>
              cs[p].status = "done" /\ Len(cs[p].fields) = NumField(T)
        \* an Assign on a type without an entry compiles
        /\ (pc[p] = "assign" /\ cs[p].status = "hit") => T \in DOMAIN cacheM.ent
        \* a compilation that finds the function attaches it, and it is run
        /\ (AssignDone(p) /\ cs[p].status = "done") =>
              \A i \in 1..NumField(T) : \A j \in CustomDirectives(T, i) :
                 LET fn == IF userFns = 0 THEN "nil"
                           ELSE FuncsAt(userFns, TagDirectives(T, i)[j])
                     values == Values(call[p].params, TagParam(T, i))
                 IN  (fn # "nil" /\ Reached(p, i) /\ Len(values) > 0) =>
                        /\ cs[p].fields[i].validators[1] =
                              [vt |-> "user", validateFn |-> fn]
                        /\ \E e \in EventsOnField(p, i) :
                              res[p].log[e].ev = "validate" /\ res[p].log[e].n = 1
                        /\ callFn(fn, values[1]).kind # "nil" =>
                              /\ res[p].err = callFn(fn, values[1])
                              /\ res[p].rec[i] = call[p].rec0[i]

\* a type whose compilation failed was compiled again after Add and the
\* registered function rejected the value
C4_Witness ==
    \E p \in Procs :
        /\ AssignDone(p) /\ call[p].T \in hist.failed /\ cs[p].status = "done"
        /\ CustomDirectives(call[p].T, 1) # {}
        /\ cs[p].fields[1].validators[1].vt = "user"
        /\ res[p].err.kind = "callback"

(***************************************************************************)
(* C5  Once a type is resolved, every later resolve returns a list with    *)
(* the content first installed, without compiling again, and the list is   *)
(* the one compiled from the type's own tags, also for two types with the  *)
(* same field and parameter names.                                         *)
(***************************************************************************)
OwnTags(T, l) ==
    /\ Len(l) = NumField(T)
    /\ \A i \in 1..NumField(T) :
          /\ l[i].name = StructTypes[T][i].name
          /\ l[i].index = i - 1
          /\ l[i].param = TagParam(T, i)
          /\ l[i].optional = TagOptional(T, i)
    /\ T = "SomeForm" => l[2].validators[1] = [vt |-> "rangeInt", Min |-> 1, Max |-> 10]
    /\ T = "CachedForm2" => l[2].validators[1] = [vt |-> "rangeInt", Min |-> 2, Max |-> 10]

C5_ResolveIdempotent ==
    /\ \A T \in TypeNames :
          /\ Cardinality(hist.stored[T] \cup hist.returned[T]) <= 1
          /\ \A l \in hist.returned[T] : OwnTags(T, l)
    /\ \A p \in Procs :
          pc[p] \in {"pv_nilcheck", "pv_rlock", "pv_test", "pv_get", "pv_runlock",
                     "gf_lock", "gf_install"}
             => hist.stored[call[p].T] = {} /\ hist.returned[call[p].T] = {}

\* a cache hit for CachedForm2 while SomeForm, with the same field and
\* parameter names, is cached as well
C5_Witness ==
    \E p \in Procs :
        /\ pc[p] = "assign" /\ cs[p].status = "hit" /\ call[p].T = "CachedForm2"
        /\ hist.returned["SomeForm"] # {}
        /\ hist.returned["CachedForm2"] # {}

(***************************************************************************)
(* C6  Under concurrent first use and concurrent Add, every list returned  *)
(* to a caller and every list stored in the cache for a type is complete   *)
(* and all of them have the same content.                                  *)
(***************************************************************************)
C6_ConsistentUnderRace ==
    \A T \in TypeNames :
        /\ \A l \in hist.stored[T] \cup hist.returned[T] : Len(l) = NumField(T)
        /\ Cardinality(hist.stored[T] \cup hist.returned[T]) <= 1

(***************************************************************************)
(* C7  Every write of the cache map or of the registry happens under the   *)
(* write lock, every read under at least the read lock, and no two         *)
(* goroutines are about to access the same shared variable, one of them    *)
(* writing, without a lock ordering them.                                  *)
(***************************************************************************)
\* the shared variables the next step of p reads and writes
ReadsOf(p) ==
    CASE pc[p] \in {"gf_nilcheck", "gf_read"} -> {"fieldCache.m"}
      [] pc[p] = "gf_install" -> {"fieldCache.m"}
      [] pc[p] \in {"pv_nilcheck", "pv_rlock", "pv_runlock", "add_nilcheck", "add_lock",
                    "add_unlock"} -> {"userFns"}
      [] pc[p] \in {"pv_test", "pv_get", "add_funcsnil", "add_store"} ->
            {"userFns", "userFns.Funcs"}
      [] pc[p] = "add_makefuncs" -> {"userFns"}
      [] OTHER -> {}

WritesOf(p) ==
    CASE pc[p] = "gf_make" -> {"fieldCache.m"}
      [] pc[p] = "gf_install" -> {"fieldCache.m[]"}
      [] pc[p] = "add_new" -> {"userFns"}
      [] pc[p] = "add_makefuncs" -> {"userFns.Funcs"}
      [] pc[p] = "add_store" -> {"userFns.Funcs[]"}
      [] OTHER -> {}

\* p is between Lock and Unlock, or between RLock and RUnlock, of the lock
\* that guards the variable
InWriteLock(p, v) ==
    IF v \in {"fieldCache.m", "fieldCache.m[]"} THEN pc[p] \in {"gf_install", "gf_unlock"}
    ELSE pc[p] \in {"add_funcsnil", "add_makefuncs", "add_store", "add_unlock"}

InReadLock(p, v) ==
    IF v \in {"fieldCache.m", "fieldCache.m[]"}
    THEN pc[p] \in {"gf_nilcheck", "gf_make", "gf_read", "gf_runlock"}
    ELSE pc[p] \in {"pv_test", "pv_get", "pv_runlock"}

C7_LockDiscipline ==
    /\ \A p \in Procs :
          /\ \A v \in WritesOf(p) : InWriteLock(p, v)
          /\ \A v \in ReadsOf(p) : InWriteLock(p, v) \/ InReadLock(p, v)
    /\ \A p, q \in Procs :
          p # q => WritesOf(p) \cap (ReadsOf(q) \cup WritesOf(q)) = {}

(***************************************************************************)
(* C8  Add with a built-in directive name returns an error and leaves the  *)
(* registry as it was: nothing added or replaced, nothing initialised.     *)
(***************************************************************************)
C8_ReservedNameRejected ==
    [][\A p \in Procs :
          (/\ calls'[p] = calls[p] + 1
           /\ call'[p].op = "Add"
           /\ call'[p].fn \in {<<"o", "p", "t", "i", "o", "n", "a", "l">>, <<"r", "a", "n", "g", "e">>, <<"l", "e", "n">>})
          => /\ pc'[p] = "done"
             /\ res'[p].err.kind = "builtin"
             /\ res'[p].err.Name = call'[p].fn
             /\ userFns' = userFns
             /\ heap' = heap]_vars

\* Add("len", fn) returned the error while the registry was never initialised
C8_Witness ==
    \E p \in Procs :
        /\ pc[p] = "done" /\ call[p].op = "Add" /\ call[p].fn = <<"l", "e", "n">>
        /\ res[p].err.kind = "builtin"
        /\ userFns = 0

(***************************************************************************)
(* C9  When assign reaches a tagged field that is not optional and the     *)
(* input has no value for its parameter (no key, or an empty list), Assign *)
(* fails with the missing-parameter error naming the parameter and the     *)
(* field is not written.                                                   *)
(***************************************************************************)
C9_RequiredMissing ==
    \A p \in Procs : AssignDone(p) =>
        \A k \in 1..NumField(call[p].T) :
            LET T == call[p].T IN
            (/\ TagParam(T, k) # <<>>
             /\ ~TagOptional(T, k)
             /\ StructTypes[T][k].exported
             /\ Len(Values(call[p].params, TagParam(T, k))) = 0
             /\ Reached(p, k))
            => /\ res[p].err = [kind |-> "missing", Param |-> TagParam(T, k)]
               /\ res[p].rec[k] = call[p].rec0[k]
               /\ EventsOnField(p, k) = {}

\* the second field is required, its key maps to an empty list, and the
\* call failed after the first field had been assigned
C9_Witness ==
    \E p \in Procs :
        /\ AssignDone(p) /\ call[p].T = "SomeForm"
        /\ pAge \in DOMAIN call[p].params /\ call[p].params[pAge] = <<>>
        /\ res[p].err.kind = "missing"
        /\ res[p].rec[1] # call[p].rec0[1]
        /\ res[p].rec[2] = 77

Token(text, isnum, num) == [text |-> text, isnum |-> isnum, num |-> num]

NoToken == Token(<<>>, FALSE, 0)

ArgTokens ==
    {Token(<<"-", "3">>, TRUE, -3), Token(<<"0">>, TRUE, 0), Token(<<"1">>, TRUE, 1),
     Token(<<"2">>, TRUE, 2), Token(<<"5">>, TRUE, 5), Token(<<"1", "0">>, TRUE, 10),
     Token(<<"a">>, FALSE, 0), Token(<<"1", "x">>, FALSE, 0)}

\* a directive of a validate tag: its text and what it was written to mean
Directive(fn, text, min, max) == [fn |-> fn, text |-> text, min |-> min, max |-> max]

NoDirective == Directive("none", <<>>, NoToken, NoToken)

DirectiveMenu ==
    {NoDirective,
     Directive("custom", <<"h", "a", "s", "h">>, NoToken, NoToken),
     Directive("custom", <<"b", "a", "d", "F", "n">>, NoToken, NoToken),
     Directive("range", <<"r", "a", "n", "g", "e">>, NoToken, NoToken),
     Directive("len", <<"l", "e", "n">>, NoToken, NoToken)}
    \cup {Directive("range", <<"r", "a", "n", "g", "e", "(">> \o a.text \o <<":">> \o b.text \o <<")">>, a, b) :
             a \in ArgTokens, b \in ArgTokens}
    \cup {Directive("len", <<"l", "e", "n", "(">> \o a.text \o <<":">> \o b.text \o <<")">>, a, b) :
             a \in ArgTokens, b \in ArgTokens}

\* the regex keys of the tests: a mode prefix and a pattern
RegexKey(text, mode, pattern) == [text |-> text, mode |-> mode, pattern |-> pattern]

RegexMenu ==
    {RegexKey(<<"^", "[", "a", "-", "z", "]", "*", "$">>, "match", <<"^", "[", "a", "-", "z", "]", "*", "$">>),
     RegexKey(<<"m", "a", "t", "c", "h", ",", "[", "a", "-", "z", "]">>, "match", <<"[", "a", "-", "z", "]">>),
     RegexKey(<<"b">>, "match", <<"b">>),
     RegexKey(<<"f", "i", "n", "d", ",", "b">>, "find", <<"b">>),
     RegexKey(<<"f", "i", "n", "d", ",", "b", "*">>, "find", <<"b", "*">>)}

NoRegex == RegexKey(<<>>, "match", <<>>)

\* the types of the field under test
FieldType(kind, elem) == [kind |-> kind, elem |-> elem]

UnitTypes ==
    {FieldType("string", "none"), FieldType("int", "none"), FieldType("int8", "none"),
     FieldType("uint", "none"), FieldType("uint8", "none"), FieldType("bool", "none"),
     FieldType("float64", "none"),
     FieldType("slice", "string"), FieldType("slice", "int")}

\* the submitted texts
InputTexts ==
    {<<>>, <<"-", "4">>, <<"-", "3">>, <<"0">>, <<"1">>, <<"2">>, <<"5">>, <<"1", "0">>, <<"1", "1">>, <<"1", "2">>, <<"3", "0", "0">>,
     <<"1", "2", "7">>, <<"1", "2", "8">>, <<"-", "1", "2", "8">>, <<"-", "1", "2", "9">>, <<"2", "5", "5">>, <<"2", "5", "6">>,
     <<"1", ".", "5">>, <<"a">>, <<"a", "b">>, <<"a", "b", "c", "d", "e">>, <<"a", "X", "b">>, <<"t", "r", "u", "e">>}

ValuesMenu ==
    {<<s>> : s \in InputTexts}
    \cup {<<<<"a", "b">>, <<"a", "b", "c", "d", "e">>>>, <<<<"1">>, <<"1", "1">>>>, <<<<"5">>, <<"a">>>>,
          <<<<"1">>, <<"1", "2">>, <<"5">>>>, <<<<"a">>, <<"5">>, <<"1">>>>, <<<<"a", "b">>, <<"a">>, <<"a", "b", "c", "d", "e">>>>}

\* the parameter name of the field under test
UnitParam == <<"v">>

\* the registry after Add("hash", hashCheck) and Add("badFn", testBadFn)
UnitRegistry(name) ==
    IF name = <<"h", "a", "s", "h">> THEN "hashCheck"
    ELSE IF name = <<"b", "a", "d", "F", "n">> THEN "testBadFn"
    ELSE "nil"

UnitCase(typ, directive, regex, values) ==
    [op |-> "unit", typ |-> typ, directive |-> directive, regex |-> regex,
     values |-> values]

\* a case has a directive or a regex key
UnitCases ==
    {UnitCase(t, d, NoRegex, v) : t \in UnitTypes, d \in DirectiveMenu, v \in ValuesMenu}
    \cup {UnitCase(t, NoDirective, r, v) : t \in UnitTypes, r \in RegexMenu, v \in ValuesMenu}

InitUnit ==
    /\ scenario = "unit"
    /\ cacheM = NilMap
    /\ cacheLock = [w |-> FALSE, r |-> 0]
    /\ userFns = 0
    /\ heap = [o \in Procs |-> NewObject]
    /\ crashed = FALSE
    /\ pc = [p \in Procs |-> "idle"]
    /\ call \in {[p \in Procs |-> IF p = 1 THEN c ELSE NoCall] : c \in UnitCases}
    /\ cs = [p \in Procs |-> NoPos]
    /\ res = [p \in Procs |-> NoRes]
    /\ calls = [p \in Procs |-> 0]
    /\ hist = [stored |-> [T \in TypeNames |-> {}], returned |-> [T \in TypeNames |-> {}],
               failed |-> {}]

\* f := &field{} of the test, after f.param = directives[0]
UnitField(typ) ==
    [name |-> "Field", param |-> UnitParam, typ |-> typ, optional |-> FALSE,
     index |-> 0, validators |-> <<>>]

\* one round of the loop of parseValidate on directive d, the registry
\* being initialised
directiveValidator(d, f) ==
    IF d = <<>> THEN Built(NoValidator)
    ELSE IF HasPrefix(d, <<"r", "a", "n", "g", "e">>)
         THEN newRangeValidator(d, <<"r", "a", "n", "g", "e">>, f, DirectiveKind(f))
    ELSE IF HasPrefix(d, <<"l", "e", "n">>)
         THEN newLenValidator(d, <<"l", "e", "n">>, f, DirectiveKind(f))
    ELSE IF UnitRegistry(d) # "nil"
         THEN Built([vt |-> "user", validateFn |-> UnitRegistry(d)])
    ELSE Built(NoValidator)

\* f.validators = append(f.validators, validator)
withValidator(b, f) ==
    IF b.v.vt = "none" THEN f ELSE [f EXCEPT !.validators = Append(@, b.v)]

\* setDirectives after parseRegex returned r
regexParsed(r) ==
    IF r.err.kind # "nil" THEN Stopped("error", r.err, 1, 0, r.f, <<>>, <<>>)
    ELSE Stopped("done", NoErr, 1, 0, NoField, <<>>, <<r.f>>)

\* setDirectives after the directive gave b: an error returns, else the
\* regex key is parsed
directiveParsed(b, f, regex) ==
    IF b.panic THEN Stopped("panic", b.err, 1, 2, f, <<>>, <<>>)
    ELSE IF b.err.kind # "nil" THEN Stopped("error", b.err, 1, 2, f, <<>>, <<>>)
    ELSE regexParsed(parseRegex(regex, withValidator(b, f)))

\* the test compiles its field
Test_setDirectives(p) ==
    /\ scenario = "unit" /\ call[p].op = "unit" /\ pc[p] = "idle"
    /\ cs' = [cs EXCEPT ![p] =
                directiveParsed(
                    directiveValidator(call[p].directive.text, UnitField(call[p].typ)),
                    UnitField(call[p].typ), call[p].regex.text)]
    /\ pc' = [pc EXCEPT ![p] = "built"]
    /\ UNCHANGED <<scenario, cacheM, cacheLock, userFns, heap, crashed, call, res, calls,
                   hist>>

\* the record the test assigns to: one field holding an earlier value
UnitRecord(typ) == <<OldOf(typ.kind, typ.elem)>>

\* the test runs the loop body of assign on the compiled field
Test_assign(p) ==
    /\ scenario = "unit" /\ call[p].op = "unit" /\ pc[p] = "built"
    /\ cs[p].status = "done"
    /\ LET return(r) ==
               Finish(p, [stage |-> "assign", rec |-> r.rec, err |-> r.err, log |-> r.log])
       IN  return(assignField(UnitParam :> call[p].values, cs[p].fields[1],
                              Decl("Field", call[p].typ.kind, call[p].typ.elem, <<>>, TRUE),
                              [rec |-> UnitRecord(call[p].typ), err |-> NoErr,
                               log |-> <<>>]))
    /\ UNCHANGED <<scenario, cacheM, cacheLock, userFns, heap, crashed, call, cs, calls,
                   hist>>

NextUnit ==
    \/ \E p \in Procs : Test_setDirectives(p)
    \/ \E p \in Procs : Test_assign(p)

SpecUnit == InitUnit /\ [][NextUnit]_vars


(***************************************************************************)
(* Vocabulary of the properties of the constructors and validators.        *)
(***************************************************************************)
\* the test of p compiled its field (with or without success)
UnitBuilt(p) == scenario = "unit" /\ call[p].op = "unit" /\ pc[p] \in {"built", "done"}

\* the test of p compiled its field and ran assign on it
UnitDone(p) == scenario = "unit" /\ call[p].op = "unit" /\ pc[p] = "done"

\* the kind the validators of a field see: the element kind for a slice
ElemKind(typ) == IF typ.kind = "slice" THEN typ.elem ELSE typ.kind

\* the values assign processes: all of them for a slice, the first otherwise
Processed(p) ==
    IF call[p].typ.kind = "slice" THEN 1..Len(call[p].values) ELSE {1}

\* the text is the canonical decimal of a whole number
IsNumber(text) == \E n \in -400..400 : FormatInt(n) = text

\* the whole number n is a value of the kind
FitsKind(kind, n) ==
    CASE kind = "int8"  -> n >= -128 /\ n <= 127
      [] kind = "uint8" -> n >= 0 /\ n <= 255
      [] kind = "uint"  -> n >= 0
      [] OTHER          -> TRUE

\* every processed value converts to the kind of the field
AllConvert(p) ==
    \A i \in Processed(p) :
        /\ IsNumber(call[p].values[i])
        /\ FitsKind(ElemKind(call[p].typ), NumberOf(call[p].values[i]))

\* the directive of p is fn(min:max) with whole numbers min <= max
WellFormed(p, fn) ==
    /\ call[p].directive.fn = fn
    /\ call[p].directive.min.isnum /\ call[p].directive.max.isnum
    /\ call[p].directive.min.num <= call[p].directive.max.num

\* the first processed value that lies outside what the directive allows,
\* 0 if none: in(i) tells whether value i is allowed
FirstOutside(p, allowed(_)) ==
    IF \A i \in Processed(p) : allowed(i) THEN 0
    ELSE CHOOSE i \in Processed(p) :
            ~allowed(i) /\ \A j \in Processed(p) : j < i => allowed(j)

(***************************************************************************)
(* C11  A range(min:max) directive with whole numbers min <= max compiles  *)
(* on a signed or unsigned integer field, and its validator accepts a      *)
(* converted value v exactly when min <= v <= max, bounds included and     *)
(* negative numbers included for signed fields.                            *)
(***************************************************************************)
C11_RangeInclusive ==
    \A p \in Procs :
        LET d == call[p].directive
            k == ElemKind(call[p].typ)
            inRange(i) == /\ d.min.num <= NumberOf(call[p].values[i])
                          /\ NumberOf(call[p].values[i]) <= d.max.num
            out == FirstOutside(p, inRange)
        IN  (/\ UnitBuilt(p) /\ WellFormed(p, "range")
             /\ k \in IntKinds \cup UintKinds
             /\ (k \in UintKinds => d.min.num >= 0))
            => /\ cs[p].status = "done"
               /\ (UnitDone(p) /\ AllConvert(p)) =>
                     /\ res[p].err.kind = "nil" <=> out = 0
                     /\ out # 0 =>
                           res[p].err = ValidationError(UnitParam, call[p].values[out])
                     /\ (out = 0 /\ call[p].typ.kind # "slice") =>
                           res[p].rec[1] = NumberOf(call[p].values[1])

\* range(-3:5) on a signed field accepted the value -3, its lower bound
C11_Witness ==
    \E p \in Procs :
        /\ UnitDone(p) /\ WellFormed(p, "range")
        /\ call[p].typ.kind = "int8"
        /\ call[p].directive.min.num = -3 /\ call[p].directive.max.num = 5
        /\ call[p].values = <<<<"-", "3">>>>
        /\ res[p].err.kind = "nil" /\ res[p].rec[1] = -3

C13_ValidatorMatchesKind ==
    \A p \in Procs : UnitBuilt(p) =>
        LET k == ElemKind(call[p].typ)
            d == call[p].directive
        IN  /\ cs[p].status = "done" =>
                  \A i \in 1..Len(cs[p].fields[1].validators) :
                     LET v == cs[p].fields[1].validators[i]
                     IN  /\ v.vt = "len" => k = "string"
                         /\ v.vt = "rangeInt" => k \in IntKinds
                         /\ v.vt = "rangeUint" => k \in UintKinds
                         /\ v.vt = "rangeFloat" => k \in FloatKinds
            /\ (cs[p].status = "done" /\ WellFormed(p, "range")) =>
                  /\ k \in IntKinds => cs[p].fields[1].validators[1].vt = "rangeInt"
                  /\ k \in UintKinds => cs[p].fields[1].validators[1].vt = "rangeUint"
                  /\ k \in FloatKinds => cs[p].fields[1].validators[1].vt = "rangeFloat"
            /\ (d.fn = "range" /\ k = "string") =>
                  /\ cs[p].status = "error"
                  /\ cs[p].err.kind = "ValidatorTypeError"
                  /\ cs[p].err.Func = "range" /\ cs[p].err.Param = UnitParam
            /\ (d.fn = "len" /\ k \in IntKinds \cup UintKinds \cup FloatKinds) =>
                  /\ cs[p].status = "error"
                  /\ cs[p].err.kind = "ValidatorTypeError"
                  /\ cs[p].err.Func = "len" /\ cs[p].err.Param = UnitParam

\* len(0:5) on an unsigned integer field failed to compile with the
\* type-incompatibility error
C13_Witness ==
    \E p \in Procs :
        /\ UnitBuilt(p) /\ WellFormed(p, "len")
        /\ call[p].typ.kind = "uint8"
        /\ cs[p].status = "error" /\ cs[p].err.kind = "ValidatorTypeError"

(***************************************************************************)
(* C14  Every range and length validator of a compiled field has           *)
(* Min <= Max: a len or range directive whose max is numerically smaller   *)
(* than its min fails to compile with an error and yields no validator.    *)
(***************************************************************************)
C14_MinNotAboveMax ==
    \A p \in Procs : UnitBuilt(p) =>
        LET k == ElemKind(call[p].typ)
            d == call[p].directive
        IN  /\ cs[p].status = "done" =>
                  \A i \in 1..Len(cs[p].fields[1].validators) :
                     LET v == cs[p].fields[1].validators[i]
                     IN  v.vt \in {"rangeInt", "rangeUint", "rangeFloat", "len"}
                            => v.Min <= v.Max
            /\ (/\ d.fn \in {"range", "len"}
                /\ d.min.isnum /\ d.max.isnum /\ d.max.num < d.min.num
                /\ (d.fn = "len" => k = "string")
                /\ (d.fn = "range" => k \in IntKinds \cup UintKinds \cup FloatKinds))
               => /\ cs[p].status = "error"
                  /\ cs[p].err.kind = "ValidatorFuncError"
                  /\ cs[p].fields = <<>>

\* range(5:1) on a signed integer field failed to compile
C14_Witness ==
    \E p \in Procs :
        /\ UnitBuilt(p) /\ call[p].directive.fn = "range"
        /\ call[p].directive.max.isnum
        /\ call[p].directive.min.num = 5 /\ call[p].directive.max.num = 1
        /\ call[p].typ.kind = "int"
        /\ cs[p].status = "error" /\ cs[p].err.kind = "ValidatorFuncError"

\* the numeric parser newRangeValidator picks for the kind accepts the token
ArgParses(kind, text) ==
    IF kind \in IntKinds THEN ParseInt(text).ok
    ELSE IF kind \in UintKinds THEN ParseUint(text).ok
    ELSE ParseFloat(text).ok

\* the directive of p is range(min:max) on a numeric field
RangeOnNumber(p) ==
    /\ call[p].directive.fn = "range" /\ call[p].directive.min # NoToken
    /\ ElemKind(call[p].typ) \in IntKinds \cup UintKinds \cup FloatKinds

(***************************************************************************)
(* C15  When the numeric parser of a range directive rejects an argument   *)
(* token, the error names the token that failed -- the min token when min  *)
(* failed, the max token when only max failed -- and carries the           *)
(* directive's function name.                                              *)
(***************************************************************************)
C15_FailedTokenReported ==
    \A p \in Procs : (UnitBuilt(p) /\ RangeOnNumber(p)) =>
        LET k == ElemKind(call[p].typ)
            d == call[p].directive
        IN  /\ ~ArgParses(k, d.min.text) =>
                  /\ cs[p].status = "error"
                  /\ cs[p].err.kind = "ValidatorFuncError"
                  /\ cs[p].err.Value = d.min.text
                  /\ cs[p].err.Name = <<"r", "a", "n", "g", "e">>
            /\ (ArgParses(k, d.min.text) /\ ~ArgParses(k, d.max.text)) =>
                  /\ cs[p].status = "error"
                  /\ cs[p].err.kind = "ValidatorFuncError"
                  /\ cs[p].err.Value = d.max.text
                  /\ cs[p].err.Name = <<"r", "a", "n", "g", "e">>

\* the test of p has a regex key of the given mode on a field of strings
RegexOnString(p, mode) ==
    /\ call[p].regex # NoRegex /\ call[p].regex.mode = mode
    /\ ElemKind(call[p].typ) = "string"

\* the pattern matches the whole of s: a match that starts at 0 and ends at
\* the end of s
FullMatch(pattern, s) ==
    LET c == Compile(pattern)
    IN  c.ok /\ matchHere([c EXCEPT !.eol = TRUE], 1, s, 0) >= 0

\* the pattern has a match, possibly empty, somewhere in s
SomeMatch(pattern, s) ==
    LET c == Compile(pattern)
    IN  c.ok /\ \E b \in 0..Len(s) : (c.bol => b = 0) /\ matchHere(c, 1, s, b) >= 0

(***************************************************************************)
(* C16  A regex validator in match mode accepts a candidate exactly when   *)
(* the pattern matches the entire candidate, whether or not the pattern    *)
(* carries ^ and $ anchors.                                                *)
(***************************************************************************)
C16_MatchIsFullMatch ==
    \A p \in Procs : (UnitDone(p) /\ RegexOnString(p, "match")) =>
        (res[p].err = NoErr
            <=> \A i \in Processed(p) : FullMatch(call[p].regex.pattern, call[p].values[i]))

(***************************************************************************)
(* C17  A regex validator in find mode accepts a candidate exactly when    *)
(* the pattern has a match somewhere within it, the leftmost match being   *)
(* the empty string included.                                              *)
(***************************************************************************)
C17_FindIsSearch ==
    \A p \in Procs : (UnitDone(p) /\ RegexOnString(p, "find")) =>
        (res[p].err = NoErr
            <=> \A i \in Processed(p) : SomeMatch(call[p].regex.pattern, call[p].values[i]))

\* the directive of p names the registered callback hashCheck
CustomHash(p) ==
    call[p].directive.fn = "custom" /\ UnitRegistry(call[p].directive.text) = "hashCheck"

\* the string form of the value the text converts to, for a field of strings
\* or of whole numbers: the text itself, or the decimal text of the number
Rendering(kind, text) ==
    IF kind = "string" THEN text ELSE FormatInt(NumberOf(text))

(***************************************************************************)
(* C18  A custom validator's callback is invoked with the string rendering *)
(* of the converted value -- for an integer field the decimal text of the  *)
(* number -- so that its verdict depends on the submitted value.  Stated   *)
(* for fields of strings and of whole numbers whose values convert: the    *)
(* call succeeds exactly when hashCheck accepts every rendering.           *)
(***************************************************************************)
C18_CallbackSeesRendering ==
    \A p \in Procs :
        (/\ UnitDone(p) /\ CustomHash(p)
         /\ ElemKind(call[p].typ) \in {"string"} \cup IntKinds \cup UintKinds
         /\ (ElemKind(call[p].typ) # "string" => AllConvert(p)))
        => (res[p].err = NoErr
              <=> \A i \in Processed(p) :
                    hashCheck(Rendering(ElemKind(call[p].typ), call[p].values[i])) = NoErr)

\* assign of p ended with an error of a validator: the last thing it did was
\* to run a validator, which did not panic
Rejected(p) ==
    /\ UnitDone(p) /\ res[p].err # NoErr /\ res[p].err.kind # "panic"
    /\ res[p].log # <<>> /\ res[p].log[Len(res[p].log)].ev = "validate"

(***************************************************************************)
(* C19  Whenever a validator of any variant (range, length, regex, custom) *)
(* rejects a value, the error of the call is the validation-failure error  *)
(* carrying the parameter name of the field.                               *)
(***************************************************************************)
C19_UniformValidationError ==
    \A p \in Procs : Rejected(p) =>
        /\ res[p].err.kind = "ValidationError"
        /\ res[p].err.Param = UnitParam

\* the first processed text of p that does not convert to the kind of the
\* field (no parse, or a number out of the kind's range), 0 if none
FirstUnconverted(p) ==
    LET k == ElemKind(call[p].typ)
        fails(i) ==
            IF k \in IntKinds
            THEN ~ParseInt(call[p].values[i]).ok
                    \/ OverflowInt(k, ParseInt(call[p].values[i]).n)
            ELSE IF k \in UintKinds
            THEN ~ParseUint(call[p].values[i]).ok
                    \/ OverflowUint(k, ParseUint(call[p].values[i]).n)
            ELSE IF k \in FloatKinds THEN ~ParseFloat(call[p].values[i]).ok
            ELSE IF k = "bool" THEN ~ParseBool(call[p].values[i]).ok
            ELSE FALSE
    IN  FirstOutside(p, LAMBDA i : ~fails(i))

\* every element before the first text that does not convert was set, so
\* the loop over the values came to that text
ReachedUnconverted(p) ==
    \A j \in 1..(FirstUnconverted(p) - 1) :
        \E e \in 1..Len(res[p].log) : res[p].log[e].ev = "set" /\ res[p].log[e].elem = j

(***************************************************************************)
(* C20  When a supplied text does not parse into the kind of the field or  *)
(* overflows it, the call returns a type-mismatch error whose parameter is *)
(* the parameter name of the field, whose value is the offending text and  *)
(* whose type is the target type; no validator ran on that text and the    *)
(* field (for a slice, its element) was not written.                       *)
(***************************************************************************)
C20_TypeMismatchReported ==
    \A p \in Procs : (UnitDone(p) /\ FirstUnconverted(p) # 0 /\ ReachedUnconverted(p)) =>
        LET i    == FirstUnconverted(p)
            elem == IF call[p].typ.kind = "slice" THEN i ELSE 0
        IN  /\ res[p].err.kind = "TypeError"
            /\ res[p].err.Param = UnitParam
            /\ res[p].err.Value = call[p].values[i]
            /\ res[p].err.Type = ElemKind(call[p].typ)
            /\ \A e \in 1..Len(res[p].log) :
                  res[p].log[e].elem = elem => res[p].log[e].ev \notin {"validate", "set"}

\* the test of p assigns one text to a scalar field of whole numbers
ScalarNumber(p) ==
    /\ call[p].typ.kind \in IntKinds \cup UintKinds
    /\ IsNumber(call[p].values[1])

ElemOutcome(p, i) ==
    verifiedAssign(call[p].values[i], cs[p].fields[1], call[p].typ.elem)

\* the first element of p's values that fails to convert or to validate,
\* 0 if none
FirstFailingElem(p) ==
    FirstOutside(p, LAMBDA i : ElemOutcome(p, i).err = NoErr)

\* the positions of the log of p that are events of the given kind on
\* element i
ElemEvents(p, i, ev) ==
    {e \in 1..Len(res[p].log) : res[p].log[e].elem = i /\ res[p].log[e].ev = ev}

(***************************************************************************)
(* C22  The n values of a slice field are converted and validated in       *)
(* positional order, each against all validators of the field; at the      *)
(* first element that fails the call returns its error and no later        *)
(* element is converted, validated or written; if none fails the field     *)
(* ends as the n converted values in input order.                          *)
(***************************************************************************)
C22_SliceInOrder ==
    \A p \in Procs : (UnitDone(p) /\ call[p].typ.kind = "slice") =>
        LET n   == Len(call[p].values)
            i0  == FirstFailingElem(p)
            log == res[p].log
            all == Len(cs[p].fields[1].validators)
        IN  /\ \A a, b \in 1..Len(log) : a < b => log[a].elem <= log[b].elem
            /\ Len(res[p].rec[1]) = n
            /\ i0 = 0 =>
                  /\ res[p].err = NoErr
                  /\ \A i \in 1..n :
                        /\ res[p].rec[1][i] = ElemOutcome(p, i).val
                        /\ Cardinality(ElemEvents(p, i, "validate")) = all
                        /\ Cardinality(ElemEvents(p, i, "set")) = 1
            /\ i0 > 0 =>
                  /\ res[p].err = ElemOutcome(p, i0).err
                  /\ \A i \in 1..(i0 - 1) :
                        /\ res[p].rec[1][i] = ElemOutcome(p, i).val
                        /\ Cardinality(ElemEvents(p, i, "validate")) = all
                  /\ \A i \in i0..n :
                        /\ res[p].rec[1][i] = ZeroOf(call[p].typ.elem)
                        /\ ElemEvents(p, i, "set") = {}
                  /\ \A e \in 1..Len(log) : log[e].elem <= i0

\* the second of three numbers was out of range: the first was stored, the
\* third was not touched
C22_Witness ==
    \E p \in Procs :
        /\ UnitDone(p) /\ call[p].typ = FieldType("slice", "int")
        /\ call[p].values = <<<<"1">>, <<"1", "2">>, <<"5">>>>
        /\ FirstFailingElem(p) = 2
        /\ res[p].err.kind = "ValidationError"
        /\ res[p].rec = <<<<1, 0, 0>>>>

(***************************************************************************)
(* Vocabulary of the properties of tags.                                   *)
(***************************************************************************)
\* what a validator is: a length check, a range check, a regex or a callback
VtClass(v) ==
    IF v.vt \in {"rangeInt", "rangeUint", "rangeFloat"} THEN "range" ELSE v.vt

\* what a directive is written to be: len(...), range(...) or a function name
DirectiveClass(d) ==
    IF HasPrefix(d, <<"l", "e", "n", "(">>) THEN "len"
    ELSE IF HasPrefix(d, <<"r", "a", "n", "g", "e", "(">>) THEN "range"
    ELSE "user"

\* the validators the tag of field i of T asks for, in the order of the tag,
\* the regex validator last
TagClasses(T, i) ==
    LET ds   == TagDirectives(T, i)
        kept == SelectSeq(SubSeq(ds, 2, Len(ds)), LAMBDA d : d # <<"o", "p", "t", "i", "o", "n", "a", "l">>)
    IN  [k \in 1..Len(kept) |-> DirectiveClass(kept[k])] \o <<"regex">>

RECURSIVE IsSubseq(_, _)
\* a is b with some of its members left out
IsSubseq(a, b) ==
    IF a = <<>> THEN TRUE
    ELSE IF b = <<>> THEN FALSE
    ELSE IF Head(a) = Head(b) THEN IsSubseq(Tail(a), Tail(b))
    ELSE IsSubseq(a, Tail(b))

\* the validators of descriptor f by what they are
Classes(f) == [k \in 1..Len(f.validators) |-> VtClass(f.validators[k])]

\* the value verifiedAssign hands to the validators of a scalar field
Converted(decl, text) ==
    IF decl.kind = "string" THEN StringValue(text) ELSE IntValue(ParseInt(text).n)

\* the numbers of the validators invoked on scalar field k, as logged
Invoked(p, k) ==
    {res[p].log[e].n : e \in {e \in EventsOnField(p, k) : res[p].log[e].ev = "validate"}}

\* scalar field k of p's record was written by the call
WasSet(p, k) == \E e \in EventsOnField(p, k) : res[p].log[e].ev = "set"

(***************************************************************************)
(* C23  The validators of a field run in the order of their directives in  *)
(* the validate tag, the regex validator after all of them, and stop at    *)
(* the first that fails: its error is returned and no later validator is   *)
(* invoked.                                                                *)
(***************************************************************************)
C23_ValidatorsInTagOrder ==
    \A p \in Procs : AssignDone(p) =>
        \A k \in 1..Len(cs[p].fields) :
            LET T    == call[p].T
                f    == cs[p].fields[k]
                vs   == f.validators
                m    == Cardinality(Invoked(p, k))
                v    == Converted(StructTypes[T][k], Values(call[p].params, f.param)[1])
                log  == res[p].log
            IN  /\ IsSubseq(Classes(f), TagClasses(T, k))
                /\ SelectSeq(Classes(f), LAMBDA c : c # "user")
                      = SelectSeq(TagClasses(T, k), LAMBDA c : c # "user")
                /\ Invoked(p, k) = 1..m /\ m <= Len(vs)
                /\ \A a, b \in EventsOnField(p, k) :
                      (a < b /\ log[a].ev = "validate" /\ log[b].ev = "validate")
                         => log[a].n < log[b].n
                /\ WasSet(p, k) => m = Len(vs)
                /\ \A j \in 1..(m - 1) : Validate(vs[j], f.param, v) = NoErr
                /\ (m >= 1 /\ ~WasSet(p, k)) =>
                      /\ Validate(vs[m], f.param, v) # NoErr
                      /\ res[p].err = Validate(vs[m], f.param, v)

\* a value that both the callback and the length check reject: the callback,
\* first in the tag, ran alone and its error is the error of the call
C23_Witness ==
    \E p \in Procs :
        /\ AssignDone(p) /\ call[p].T = "HashFormTwo"
        /\ Classes(cs[p].fields[1]) = <<"user", "len", "regex">>
        /\ Invoked(p, 1) = {1}
        /\ res[p].err.kind = "callback"
        /\ Validate(cs[p].fields[1].validators[2], pHash,
                    StringValue(call[p].params[pHash][1])) # NoErr

\* the record types with a key whose value cannot be extracted: the key and
\* the field it stands on
MalformedTags ==
    [BadRegexField          |-> [key |-> "regex", field |-> "Name"],     \* regex: "..."
     BadRegexFieldTwo       |-> [key |-> "regex", field |-> "Name"],     \* regex,"..."
     BadRegexFieldThree     |-> [key |-> "regex", field |-> "Name"],     \* regex:'...'
     BadFieldCommaSeperated |-> [key |-> "regex", field |-> "Name"],     \* ...",regex:
     BadSecondField         |-> [key |-> "validate", field |-> "Name"]]  \* validate: "..."

\* p's call was an Assign and it returned
AssignReturned(p) == pc[p] = "done" /\ call[p].op = "Assign"

(***************************************************************************)
(* C24  If the tag of a field contains the key validate or regex but the   *)
(* value of the key cannot be extracted, Assign on the record type fails   *)
(* with the tag error that names the key and the field, no field of the    *)
(* record is written and nothing is cached for the type.                   *)
(***************************************************************************)
C24_MalformedTagRejected ==
    \A p \in Procs : (AssignReturned(p) /\ call[p].T \in DOMAIN MalformedTags) =>
        /\ res[p].err = TagError(MalformedTags[call[p].T].key, MalformedTags[call[p].T].field)
        /\ res[p].rec = call[p].rec0
        /\ call[p].T \notin DOMAIN cacheM.ent
        /\ hist.stored[call[p].T] = {}

\* the second field of a record that held earlier values has a space after
\* validate: and the call ended with the tag error
C24_Witness ==
    \E p \in Procs :
        /\ AssignReturned(p) /\ call[p].T = "BadSecondField"
        /\ call[p].rec0 = OldRecord("BadSecondField")
        /\ res[p].err = TagError("validate", "Name")

\* the record types with a len or range directive whose argument list is not
\* two non-empty tokens with a colon between, inside one pair of parentheses
MalformedArguments ==
    {"LenThreeArgs", "LenEmptyArg", "LenComma", "RangeComma", "LenDoubleParen",
     "LenNoParens"}

(***************************************************************************)
(* C25  Compiling a validate tag with a len or range directive whose       *)
(* argument list is malformed (three tokens, an empty token, a comma for   *)
(* the colon, a doubled parenthesis, no parentheses) returns an error to   *)
(* the caller: it produces no descriptor and does not end the call with a  *)
(* runtime fault.                                                          *)
(***************************************************************************)
C25_MalformedArgumentsRejected ==
    \A p \in Procs : (AssignReturned(p) /\ call[p].T \in MalformedArguments) =>
        /\ res[p].stage = "getFields"
        /\ res[p].err.kind \notin {"nil", "panic"}
        /\ hist.stored[call[p].T] = {}

(***************************************************************************)
(* Vocabulary of the properties of concurrent calls.                       *)
(***************************************************************************)
\* p is inside a call of Assign or Add
InCall(p) == pc[p] \notin {"idle", "done"}

\* p waits for a lock that another goroutine holds
Blocked(p) ==
    \/ pc[p] = "gf_rlock" /\ cacheLock.w
    \/ pc[p] = "gf_lock" /\ (cacheLock.w \/ cacheLock.r > 0)
    \/ pc[p] = "pv_rlock" /\ heap[userFns].w
    \/ pc[p] = "add_lock" /\ (heap[userFns].w \/ heap[userFns].r > 0)

\* the cache lock is held exactly by the goroutines between its Lock and
\* Unlock, RLock and RUnlock
CacheLockOwned ==
    /\ cacheLock.r = Cardinality({p \in Procs : InReadLock(p, "fieldCache.m")})
    /\ cacheLock.w = (\E p \in Procs : InWriteLock(p, "fieldCache.m"))

\* the locks of the registry objects are held exactly by the goroutines
\* between userFns.Lock and Unlock, RLock and RUnlock
RegistryLockOwned ==
    /\ heap[1].r + heap[2].r = Cardinality({p \in Procs : InReadLock(p, "userFns")})
    /\ Cardinality({o \in DOMAIN heap : heap[o].w})
          = Cardinality({p \in Procs : InWriteLock(p, "userFns")})

\* some goroutine inside a call can take a step
NotDeadlocked ==
    (~crashed /\ \E p \in Procs : InCall(p)) => \E p \in Procs : InCall(p) /\ ~Blocked(p)

\* no call ended the process with a fatal runtime error instead of returning
NoFatalError == ~crashed

(***************************************************************************)
(* C26  Under any interleaving of concurrent Assign and Add calls every    *)
(* call returns a success or an error and holds neither the cache lock nor *)
(* the registry lock when it has returned, and no reachable state is a     *)
(* deadlock.  As a state property: no call ends in a fatal runtime error,  *)
(* each lock is held exactly by the goroutines inside its critical         *)
(* sections, and while a call is in progress some goroutine can step.      *)
(***************************************************************************)
C26_CallsReturnWithoutLocks ==
    /\ NoFatalError
    /\ CacheLockOwned
    /\ RegistryLockOwned
    /\ NotDeadlocked

\* the fields of T declared without a struct tag
Untagged(T) == {k \in 1..NumField(T) : StructTypes[T][k].tag = <<>>}

\* the name of field k of T as a key of a params map
NameKey(T, k) ==
    IF StructTypes[T][k].name = "name" THEN pName
    ELSE IF StructTypes[T][k].name = "IdontWantThis" THEN pIdontWantThis
    ELSE <<>>

(***************************************************************************)
(* C27  Assign writes only fields whose descriptor has a parameter name:   *)
(* a field declared without a struct tag is never written, whatever the    *)
(* input map holds (a key equal to the name of the field included) and     *)
(* whether the call succeeds or fails; untagged unexported fields do not   *)
(* cause a not-settable error.                                             *)
(***************************************************************************)
C27_UntaggedNeverWritten ==
    \A p \in Procs : AssignReturned(p) =>
        LET T == call[p].T
        IN  /\ \A k \in Untagged(T) :
                  /\ res[p].rec[k] = call[p].rec0[k]
                  /\ EventsOnField(p, k) = {}
                  /\ res[p].stage = "assign" => cs[p].fields[k].param = <<>>
            /\ (\A k \in 1..NumField(T) : ~StructTypes[T][k].exported => k \in Untagged(T))
                  => res[p].err.kind # "notSettable"

\* a call succeeded on a record with an untagged unexported field whose name
\* is a key of the input map: the field kept its earlier value, the tagged
\* field next to it was written
C27_Witness ==
    \E p \in Procs :
        /\ AssignDone(p) /\ call[p].T = "NonSettableField"
        /\ res[p].err = NoErr
        /\ ~StructTypes["NonSettableField"][1].exported
        /\ NameKey("NonSettableField", 1) \in DOMAIN call[p].params
        /\ call[p].rec0 = OldRecord("NonSettableField")
        /\ res[p].rec[1] = call[p].rec0[1]
        /\ res[p].rec[2] # call[p].rec0[2]

(***************************************************************************)
(* C28  Whenever Assign returns success, every value it stored in a tagged *)
(* field was accepted by every validator the tags of the field name: each  *)
(* len and range directive, the regex pattern and each custom function of  *)
(* the validate tag, which was invoked on the value and returned no error. *)
(***************************************************************************)
C28_StoredValuesValidated ==
    \A p \in Procs : (AssignDone(p) /\ res[p].err = NoErr) =>
        \A k \in 1..Len(cs[p].fields) : WasSet(p, k) =>
            LET T  == call[p].T
                f  == cs[p].fields[k]
                v  == Converted(StructTypes[T][k], Values(call[p].params, f.param)[1])
            IN  /\ Classes(f) = TagClasses(T, k)
                /\ Invoked(p, k) = 1..Len(TagClasses(T, k))
                /\ \A j \in 1..Len(f.validators) : Validate(f.validators[j], f.param, v) = NoErr

\* p's call was an Add and it returned nil
AddReturnedNil(p) ==
    pc[p] = "done" /\ call[p].op = "Add" /\ res[p].stage = "Add" /\ res[p].err = NoErr

(***************************************************************************)
(* C29  When Add calls with distinct names that are not reserved and with  *)
(* callbacks that are not nil run concurrently, the first registrations of *)
(* the process included, and all return nil, the registry afterwards maps  *)
(* every one of those names to its callback: no registration is lost.      *)
(***************************************************************************)
C29_NoRegistrationLost ==
    \A p \in Procs :
        (/\ \A q \in Procs : ~InCall(q)
         /\ AddReturnedNil(p)
         /\ call[p].validateFn # "nil") =>
        /\ userFns # 0
        /\ FuncsAt(userFns, call[p].fn) = call[p].validateFn

\* the directives of field k of T that name a callback of the registry
RegisteredDirectives(T, k) ==
    {j \in 2..Len(TagDirectives(T, k)) :
        userFns # 0 /\ FuncsAt(userFns, TagDirectives(T, k)[j]) # "nil"}

\* p's call of Assign compiled the descriptor of its type, or tried to
CompiledInCall(p) == AssignReturned(p) /\ cs[p].status # "hit"

(***************************************************************************)
(* C30  A field compiled after Add returned nil for a name that its        *)
(* validate tag lists as a directive gets a custom validator that invokes  *)
(* exactly the callback registered under the name.  This holds for names   *)
(* that begin with len or range as well: they are not handed to the        *)
(* constructors of the built-in len and range validators.                  *)
(***************************************************************************)
C30_RegisteredNameIsCustom ==
    \A p \in Procs : CompiledInCall(p) =>
        \A k \in 1..NumField(call[p].T) :
            \A j \in RegisteredDirectives(call[p].T, k) :
                LET fn == FuncsAt(userFns, TagDirectives(call[p].T, k)[j])
                IN  /\ ~(cs[p].status \in {"panic", "error"} /\ cs[p].i = k /\ cs[p].j = j)
                    /\ cs[p].status = "done" =>
                          \E n \in 1..Len(cs[p].fields[k].validators) :
                              /\ VtClass(cs[p].fields[k].validators[n]) = "user"
                              /\ cs[p].fields[k].validators[n].validateFn = fn
====
